---- MODULE Spec2Model ----
(***************************************************************************)
(* Gents by Elegante: the session store (AuthContext), the role-gated      *)
(* router (App, Layout, Login, Dashboard quick actions), the remote        *)
(* authentication function (auth-helpers) and the stock store with its     *)
(* quantity triggers (products, stock_entries, sales) as driven by the     *)
(* Sales and Stock Entries pages.                                          *)
(*                                                                         *)
(* Two specifications share the module:                                    *)
(*   Spec       one browser tab of the application against the users       *)
(*              table: start-up, hydration, login, logout, navigation.     *)
(*   SpecStore  the Sales / Stock Entries pages of several clients against *)
(*              the products, stock_entries and sales tables.              *)
(***************************************************************************)
EXTENDS Integers, Sequences, FiniteSets, TLC

VARIABLES
  \* ---- remote users table and requests in flight to auth-helpers
  users,        \* rows of the users table
  boots,        \* create_default_admin requests in flight, by stage, and the
                \* response to the one served last
  logins,       \* login() calls in flight, one per slot
  \* ---- AuthContext state of the tab
  phase,        \* "closed" | "mounted" (first render done) | "ready" (effect ran)
  user,         \* useState<User | null>
  loading,      \* useState(true)
  localStorage, \* value of key 'elegante_user' (<< >> when absent)
  \* ---- router / pages of the tab
  path,         \* location.pathname
  rendered,     \* what the last render put on screen
  menu,         \* hrefs of the sidebar links shown by the last render
  quick,        \* hrefs of the Dashboard quick-action buttons shown
  isLoading,    \* Login page: useState(false)
  error,        \* Login page: useState('')
  loginResult,  \* value returned by the last completed login() call
  lastOp,       \* the handler that ran last
  sinceLogout,  \* TRUE from a logout until the next successful login
  console,      \* the last line the tab wrote to the browser console
  \* ---- stock store and the pages' clients
  quantity,     \* products.quantity, per product
  salesRows,    \* rows of table sales, in insertion order
  stockRows,    \* rows of table stock_entries, in insertion order
  cProducts,    \* per client: page state `products` (id -> quantity)
  cRows,        \* per client: page state `sales` / `stockEntries`
  cLoading,     \* per client: page state `loading`
  cModal,       \* per client: page state `showModal`
  calls,        \* per client: fetchData / onSubmit invocations in flight
  initQty,      \* products.quantity when the run starts
  cPage,        \* per client: the page it has open
  cAlert,       \* per client: the text of the last alert() of onSubmit
  \* ---- requests of several clients to auth-helpers
  reqs,         \* create_user / create_default_admin requests, one per slot
  \* ---- the reports (Analytics, Dashboard) and the data they read
  today,        \* the day new Date() falls on, as a day number
  catalog,      \* table products: id -> name, sku, buy_price, sell_price
  salesTbl,     \* table sales as the reports read it
  monthlyData,  \* Analytics state `monthlyData`
  topProducts,  \* Analytics state `topProducts`
  aStats,       \* Analytics state `stats`
  aLoading,     \* Analytics state `loading`
  aReplies,     \* per query of the last fetchAnalyticsData: data returned?
  dashStats,    \* Dashboard state `stats`
  dLoading,     \* Dashboard state `loading`
  dReplies,     \* per query of the last fetchDashboardStats: data returned?
  \* ---- the Record Sale form of the tab's Sales page
  form          \* the values of useForm<SaleForm> (<< >> when not rendered)

authVars  == <<users, boots, logins, phase, user, loading, localStorage, path,
               rendered, menu, quick, isLoading, error, loginResult, lastOp,
               sinceLogout, console>>
storeVars == <<quantity, salesRows, stockRows, cProducts, cRows, cLoading,
               cModal, calls, initQty, cPage, cAlert>>
svcVars   == <<reqs>>
reportVars == <<today, catalog, salesTbl, monthlyData, topProducts, aStats,
                aLoading, aReplies, dashStats, dLoading, dReplies>>
formVars  == <<form>>
vars      == <<authVars, storeVars, svcVars, reportVars, formVars>>
\* what the tab, resp. the stock pages, leave alone
offTab    == <<storeVars, svcVars, reportVars, formVars>>
offStore  == <<authVars, svcVars, reportVars, formVars>>

----------------------------------------------------------------------------
\* Bounds of the model
MaxInFlight == 2   \* login() calls that may be in flight at once
MaxBoots    == 1   \* create_default_admin requests that may be in flight at once
MaxInitQty  == 1   \* largest products.quantity a run starts with
MaxQty      == 2   \* largest quantity typed into a form
MaxRows     == 2   \* rows of sales and stock_entries together, inserts in flight included
MaxPending  == 2   \* invocations the pages may have in flight at once
MaxRequests == 2   \* create_user requests that may be in flight at once
MaxTabs     == 2   \* create_default_admin requests of other tabs in flight at once
MaxEdits    == 1   \* rows of users changed from outside the application
FirstToday  == 389 \* the earliest current date of the reports (2024-01-25)
LastToday   == 429 \* the latest current date of the reports (2024-03-05)
MaxDated    == 2   \* rows of sales in a data set with dates around today
MaxUnits    == 2   \* largest quantity sold per product in a ranking data set
MaxFailed   == 1   \* queries of one report fetch that return an error

\* Values
Roles     == {"super_admin", "admin", "sales_staff"}
\* what is typed into the Login form: the right password of each user, a
\* wrong password, an unknown username
Credentials == { <<"admin", "admin123">>, <<"manager", "secret">>,
                 <<"clerk", "secret">>, <<"admin", "secret">>,
                 <<"ghost", "secret">> }

\* interface User { id, username, role }; null is the record of "null"s
NullUser == [id |-> "null", username |-> "null", role |-> "null"]

\* bcrypt.hash(password, 10): a salted digest; bcrypt.compare(password, hash)
\* accepts exactly the password the digest was made of
Hash(password) == [salt |-> 10, of |-> password]
Compare(password, hashed) == hashed.of = password

\* JSON.stringify(userData) / JSON.parse(savedUser)
Stringify(u) == <<u.id, u.username, u.role>>
Parse(s)     == [id |-> s[1], username |-> s[2], role |-> s[3]]

\* the default super admin of the migrations, and two users made by create_user
AdminRow == [id |-> "u1", username |-> "admin", password |-> Hash("admin123"),
             role |-> "super_admin"]
SeedUsers == { AdminRow,
               [id |-> "u2", username |-> "manager", password |-> Hash("secret"),
                role |-> "admin"],
               [id |-> "u3", username |-> "clerk", password |-> Hash("secret"),
                role |-> "sales_staff"] }

----------------------------------------------------------------------------
\* The role-gated router

GatedPaths == {"/", "/products", "/stock", "/sales", "/analytics", "/users"}
Paths      == GatedPaths \cup {"/login"}

\* RoutesSalesUnguarded: as Routes, with the /sales page left outside ProtectedRoute
RoutesSalesUnguarded ==
  [p \in GatedPaths |->
     CASE p = "/"          -> [page |-> "Dashboard",    guarded |-> TRUE,  requiredRoles |-> {}]
       [] p = "/products"  -> [page |-> "Products",     guarded |-> TRUE,  requiredRoles |-> {"super_admin", "admin"}]
       [] p = "/stock"     -> [page |-> "StockEntries", guarded |-> TRUE,  requiredRoles |-> {"super_admin", "admin"}]
       [] p = "/sales"     -> [page |-> "Sales",        guarded |-> FALSE, requiredRoles |-> {}]
       [] p = "/analytics" -> [page |-> "Analytics",    guarded |-> TRUE,  requiredRoles |-> {"super_admin", "admin"}]
       [] p = "/users"     -> [page |-> "Users",        guarded |-> TRUE,  requiredRoles |-> {"super_admin"}]]

\* RoutesAnalyticsAnyRole: as Routes, with /analytics declared without requiredRoles
RoutesAnalyticsAnyRole ==
  [p \in GatedPaths |->
     CASE p = "/"          -> [page |-> "Dashboard",    guarded |-> TRUE, requiredRoles |-> {}]
       [] p = "/products"  -> [page |-> "Products",     guarded |-> TRUE, requiredRoles |-> {"super_admin", "admin"}]
       [] p = "/stock"     -> [page |-> "StockEntries", guarded |-> TRUE, requiredRoles |-> {"super_admin", "admin"}]
       [] p = "/sales"     -> [page |-> "Sales",        guarded |-> TRUE, requiredRoles |-> {}]
       [] p = "/analytics" -> [page |-> "Analytics",    guarded |-> TRUE, requiredRoles |-> {}]
       [] p = "/users"     -> [page |-> "Users",        guarded |-> TRUE, requiredRoles |-> {"super_admin"}]]

\* <Routes> of App: every page route is wrapped in ProtectedRoute, with the
\* requiredRoles it passes ({} when the prop is omitted)
Routes ==
  [p \in GatedPaths |->
     CASE p = "/"          -> [page |-> "Dashboard",    guarded |-> TRUE, requiredRoles |-> {}]
       [] p = "/products"  -> [page |-> "Products",     guarded |-> TRUE, requiredRoles |-> {"super_admin", "admin"}]
       [] p = "/stock"     -> [page |-> "StockEntries", guarded |-> TRUE, requiredRoles |-> {"super_admin", "admin"}]
       [] p = "/sales"     -> [page |-> "Sales",        guarded |-> TRUE, requiredRoles |-> {}]
       [] p = "/analytics" -> [page |-> "Analytics",    guarded |-> TRUE, requiredRoles |-> {"super_admin", "admin"}]
       [] p = "/users"     -> [page |-> "Users",        guarded |-> TRUE, requiredRoles |-> {"super_admin"}]]

LayoutPages == {Routes[p].page : p \in GatedPaths}

\* The guard component: no user -> redirect to the login page; a user whose
\* role is not among the required ones -> rendering is blocked; otherwise the
\* children are rendered
ProtectedRoute(u, requiredRoles) ==
  IF u = NullUser THEN "redirect"
  ELSE IF requiredRoles # {} /\ u.role \notin requiredRoles THEN "deny"
  ELSE "render"

\* navigationAll: as navigation, with Analytics offered to every role
navigationAll ==
  { [name |-> "Dashboard",     href |-> "/",          roles |-> {"super_admin", "admin", "sales_staff"}],
    [name |-> "Products",      href |-> "/products",  roles |-> {"super_admin", "admin"}],
    [name |-> "Stock Entries", href |-> "/stock",     roles |-> {"super_admin", "admin"}],
    [name |-> "Sales",         href |-> "/sales",     roles |-> {"super_admin", "admin", "sales_staff"}],
    [name |-> "Analytics",     href |-> "/analytics", roles |-> {"super_admin", "admin", "sales_staff"}],
    [name |-> "Users",         href |-> "/users",     roles |-> {"super_admin"}] }

\* Layout: const navigation = [...]
navigation ==
  { [name |-> "Dashboard",     href |-> "/",          roles |-> {"super_admin", "admin", "sales_staff"}],
    [name |-> "Products",      href |-> "/products",  roles |-> {"super_admin", "admin"}],
    [name |-> "Stock Entries", href |-> "/stock",     roles |-> {"super_admin", "admin"}],
    [name |-> "Sales",         href |-> "/sales",     roles |-> {"super_admin", "admin", "sales_staff"}],
    [name |-> "Analytics",     href |-> "/analytics", roles |-> {"super_admin", "admin"}],
    [name |-> "Users",         href |-> "/users",     roles |-> {"super_admin"}] }

\* Layout: navigation.filter(item => item.roles.includes(user?.role || ''))
filteredNavigation(u) ==
  LET role == IF u = NullUser THEN "" ELSE u.role
  IN  { item.href : item \in { i \in navigation : role \in i.roles } }

\* Dashboard, Quick Actions: Manage Products and Add Stock are rendered when
\* user?.role !== 'sales_staff', Record Sale always
QuickActions(u) ==
  LET role == IF u = NullUser THEN "" ELSE u.role
  IN  (IF role # "sales_staff" THEN {"/products"} ELSE {})
        \cup {"/sales"}
        \cup (IF role # "sales_staff" THEN {"/stock"} ELSE {})

\* What a page inside Layout puts on screen
Screen(p, page, u) ==
  [path |-> p, rendered |-> page,
   menu  |-> IF page \in LayoutPages THEN filteredNavigation(u) ELSE {},
   quick |-> IF page = "Dashboard" THEN QuickActions(u) ELSE {}]

\* A render of a page route at path p for user u
RenderGated(p, u) ==
  LET r == Routes[p]
      g == IF r.guarded THEN ProtectedRoute(u, r.requiredRoles) ELSE "render"
  IN  CASE g = "redirect" -> Screen("/login", "Login", u)
        [] g = "deny"     -> Screen(p, "Denied", u)
        [] OTHER          -> Screen(p, r.page, u)

\* A render of <Routes> at path p for user u. Login: if (user) return
\* <Navigate to="/" replace />
Render(p, u) ==
  IF p = "/login"
    THEN IF u # NullUser THEN RenderGated("/", u) ELSE Screen("/login", "Login", u)
    ELSE RenderGated(p, u)

\* The first render, with loading = true and user = null: the guard either
\* shows a placeholder while loading or already evaluates the (null) user
FirstRenders(p) ==
  IF p = "/login" THEN { Render(p, NullUser) }
  ELSE { Screen(p, "Loading", NullUser), Render(p, NullUser) }

----------------------------------------------------------------------------
\* Requests to the auth-helpers function

Slots  == 1..MaxInFlight
NoResp == [success |-> FALSE, user |-> NullUser, error |-> ""]
Free   == [stage |-> "free", username |-> "", password |-> "", live |-> FALSE,
           resp |-> NoResp]

BootCount == boots.sent + boots.checked

\* no create_default_admin request answered yet
NoBootResp == [success |-> FALSE, message |-> ""]

\* gen_random_uuid(): an id no row of users carries
FreshId == CHOOSE i \in {"u1", "u2", "u3", "u4"} : \A r \in users : r.id # i

\* LoginResponseWholeRow: as LoginResponse, answering with the whole row
LoginResponseWholeRow(username, password) ==
  LET found == { r \in users : r.username = username }
  IN  IF found = {}
        THEN [success |-> FALSE, user |-> NullUser, error |-> "User not found"]
      ELSE LET row == CHOOSE r \in found : TRUE
           IN  IF ~Compare(password, row.password)
                 THEN [success |-> FALSE, user |-> NullUser, error |-> "Invalid password"]
               ELSE [success |-> TRUE, user |-> row, error |-> ""]

\* auth-helpers, action 'login': the response to {username, password}
LoginResponse(username, password) ==
  LET found == { r \in users : r.username = username }
  IN  IF found = {}
        THEN [success |-> FALSE, user |-> NullUser, error |-> "User not found"]
      ELSE LET row == CHOOSE r \in found : TRUE
           IN  IF ~Compare(password, row.password)
                 THEN [success |-> FALSE, user |-> NullUser, error |-> "Invalid password"]
               ELSE [success |-> TRUE,
                     user    |-> [id |-> row.id, username |-> row.username, role |-> row.role],
                     error   |-> ""]

\* Login page state after a render: a fresh or unmounted Login has
\* isLoading = false and error = '', and no pending call belongs to it
LoginPageReset ==
  /\ isLoading' = FALSE
  /\ error' = ""
  /\ logins' = [s \in Slots |-> [logins[s] EXCEPT !.live = FALSE]]

Show(v) ==
  /\ path' = v.path
  /\ rendered' = v.rendered
  /\ menu' = v.menu
  /\ quick' = v.quick

----------------------------------------------------------------------------
\* The tab: start-up

\* A page load at URL p: AuthProvider is constructed (user = null,
\* loading = true) and <Routes> renders once, before any effect runs
Start(p) ==
  /\ BootCount < MaxBoots
  /\ phase' = "mounted"
  /\ user' = NullUser
  /\ loading' = TRUE
  /\ \E v \in FirstRenders(p) : Show(v)
  /\ isLoading' = FALSE
  /\ error' = ""
  /\ logins' = [s \in Slots |-> Free]
  /\ loginResult' = "none"
  /\ console' = ""
  /\ UNCHANGED <<users, boots, localStorage, sinceLogout>>

\* The user opens the application, or reloads it, at some URL
OpenApp(p) ==
  /\ phase \in {"closed", "ready"}
  /\ Start(p)
  /\ lastOp' = "OpenApp"
  /\ UNCHANGED offTab

\* Dashboard quick action: window.location.href = href, a page load
QuickAction(h) ==
  /\ phase = "ready"
  /\ rendered = "Dashboard"
  /\ h \in quick
  /\ Start(h)
  /\ lastOp' = "QuickAction"
  /\ UNCHANGED offTab

\* hydrateRevalidated: as hydrate, restoring the record only while the users
\* table still has that id with that role
hydrateRevalidated(saved) ==
  IF saved # << >> /\ \E r \in users : r.id = saved[1] /\ r.role = saved[3]
    THEN Parse(saved) ELSE NullUser

\* hydrateNoUser: as hydrate, forgetting setUser
hydrateNoUser(saved) == NullUser

\* AuthProvider useEffect: savedUser = localStorage.getItem('elegante_user');
\* if (savedUser) setUser(JSON.parse(savedUser))
hydrate(saved) == IF saved # << >> THEN Parse(saved) ELSE NullUser

\* AuthProvider useEffect, after the first render: hydrate, fire
\* createDefaultAdmin() (not awaited), setLoading(false); then re-render
HydrateEffect ==
  /\ phase = "mounted"
  /\ user' = hydrate(localStorage)
  /\ boots' = [boots EXCEPT !.sent = @ + 1]
  /\ loading' = FALSE
  /\ phase' = "ready"
  /\ Show(Render(path, user'))
  /\ lastOp' = "HydrateEffect"
  /\ UNCHANGED <<users, logins, localStorage, isLoading, error, loginResult,
                 sinceLogout, console>>
  /\ UNCHANGED offTab

----------------------------------------------------------------------------
\* The tab: navigation, logout, login

\* A client-side location change to p (history back / forward): <Routes>
\* renders the route of p; a Login page shown by this render is a new instance
HistoryNavigate(p) ==
  /\ phase = "ready"
  /\ p # path
  /\ Show(Render(p, user))
  /\ LoginPageReset
  /\ lastOp' = "HistoryNavigate"
  /\ UNCHANGED <<users, boots, phase, user, loading, localStorage, loginResult,
                 sinceLogout, console>>
  /\ UNCHANGED offTab

\* A click on a sidebar <Link to={item.href}>
ClickMenu(h) ==
  /\ phase = "ready"
  /\ rendered \in LayoutPages
  /\ h \in menu
  /\ Show(Render(h, user))
  /\ LoginPageReset
  /\ lastOp' = "ClickMenu"
  /\ UNCHANGED <<users, boots, phase, user, loading, localStorage, loginResult,
                 sinceLogout, console>>
  /\ UNCHANGED offTab

\* logoutKeepStorage: as logout, forgetting localStorage.removeItem
logoutKeepStorage(u, stored) == [user |-> NullUser, localStorage |-> stored]

\* logoutKeepUser: as logout, forgetting setUser(null)
logoutKeepUser(u, stored) == [user |-> u, localStorage |-> << >>]

\* AuthContext logout: setUser(null); localStorage.removeItem('elegante_user')
logout(u, stored) == [user |-> NullUser, localStorage |-> << >>]

\* Layout handleLogout: logout(); navigate('/login')
handleLogout ==
  /\ phase = "ready"
  /\ rendered \in LayoutPages
  /\ LET after == logout(user, localStorage)
     IN  /\ user' = after.user
         /\ localStorage' = after.localStorage
  /\ Show(Render("/login", user'))
  /\ LoginPageReset
  /\ sinceLogout' = TRUE
  /\ lastOp' = "handleLogout"
  /\ UNCHANGED <<users, boots, phase, loading, loginResult, console>>
  /\ UNCHANGED offTab

\* Login onSubmit up to the fetch inside login(): setIsLoading(true);
\* setError(''); the POST {action: 'login', username, password} is sent
LoginSubmit(username, password) ==
  /\ phase = "ready"
  /\ rendered = "Login"
  /\ ~isLoading
  /\ \E s \in Slots :
       /\ logins[s].stage = "free"
       /\ \A t \in Slots : t < s => logins[t].stage # "free"
       /\ logins' = [logins EXCEPT ![s] =
                       [stage |-> "sent", username |-> username,
                        password |-> password, live |-> TRUE, resp |-> NoResp]]
  /\ isLoading' = TRUE
  /\ error' = ""
  /\ lastOp' = "LoginSubmit"
  /\ UNCHANGED <<users, boots, phase, user, loading, localStorage, path, rendered,
                 menu, quick, loginResult, sinceLogout, console>>
  /\ UNCHANGED offTab

\* auth-helpers serves a login request
ServeLogin(s) ==
  /\ logins[s].stage = "sent"
  /\ logins' = [logins EXCEPT ![s].stage = "resp",
                              ![s].resp = LoginResponse(logins[s].username,
                                                        logins[s].password)]
  /\ lastOp' = "ServeLogin"
  /\ UNCHANGED <<users, boots, phase, user, loading, localStorage, path, rendered,
                 menu, quick, isLoading, error, loginResult, sinceLogout, console>>
  /\ UNCHANGED offTab

\* loginStoreOnly: as loginSuccess, writing local storage but not the state
loginStoreOnly(u, result) ==
  [user |-> u,
   localStorage |-> Stringify([id |-> result.user.id,
                               username |-> result.user.username,
                               role |-> result.user.role])]

\* AuthContext login, success branch: userData = {id, username, role} of
\* result.user; setUser(userData); localStorage.setItem(..., stringify(userData))
loginSuccess(u, result) ==
  LET userData == [id |-> result.user.id, username |-> result.user.username,
                   role |-> result.user.role]
  IN  [user |-> userData, localStorage |-> Stringify(userData)]

\* loginFailureClears: as loginFailure, dropping the session on a failed login
loginFailureClears(u, stored) == [user |-> NullUser, localStorage |-> << >>]

\* AuthContext login, failure branches: console.error(...); return false
loginFailure(u, stored) == [user |-> u, localStorage |-> stored]

\* onSubmitErrorBlank: as onSubmitError, showing no message
onSubmitErrorBlank(success) == ""

\* Login onSubmit, after setError(''): if (!success) setError('Invalid
\* username or password')
onSubmitError(success) == IF success THEN "" ELSE "Invalid username or password"

\* The fetch of login(), or response.json(), throws: catch ->
\* console.error('Login error:', error); return false
LoginThrows(s) ==
  /\ logins[s].stage \in {"sent", "resp"}
  /\ LET after == loginFailure(user, localStorage)
     IN  /\ user' = after.user
         /\ localStorage' = after.localStorage
         /\ Show(Render(path, after.user))
  /\ loginResult' = "false"
  /\ console' = "Login error"
  /\ logins' = [logins EXCEPT ![s] = Free]
  /\ isLoading' = IF logins[s].live THEN FALSE ELSE isLoading
  /\ error' = IF logins[s].live THEN onSubmitError(FALSE) ELSE error
  /\ lastOp' = "LoginThrows"
  /\ UNCHANGED <<users, boots, phase, loading, sinceLogout>>
  /\ UNCHANGED offTab

\* login() receives the response: if (result.success && result.user) the
\* session is set and true returned, otherwise console.error('Login failed:',
\* result.error) and false; Login onSubmit goes on
LoginReturn(s) ==
  /\ logins[s].stage = "resp"
  /\ LET result == logins[s].resp
         ok     == result.success /\ result.user # NullUser
         after  == IF ok THEN loginSuccess(user, result)
                         ELSE loginFailure(user, localStorage)
     IN  /\ user' = after.user
         /\ localStorage' = after.localStorage
         /\ Show(Render(path, after.user))
         /\ loginResult' = IF ok THEN "true" ELSE "false"
         /\ console' = IF ok THEN console ELSE "Login failed: " \o result.error
         /\ sinceLogout' = IF ok THEN FALSE ELSE sinceLogout
         /\ IF logins[s].live
              THEN /\ isLoading' = FALSE
                   /\ error' = onSubmitError(ok)
              ELSE /\ isLoading' = (IF rendered' = "Login" THEN isLoading ELSE FALSE)
                   /\ error' = (IF rendered' = "Login" THEN error ELSE "")
         /\ logins' = [t \in Slots |->
                         IF t = s THEN Free
                         ELSE IF rendered' = "Login" THEN logins[t]
                         ELSE [logins[t] EXCEPT !.live = FALSE]]
  /\ lastOp' = "LoginReturn"
  /\ UNCHANGED <<users, boots, phase, loading>>
  /\ UNCHANGED offTab

----------------------------------------------------------------------------
\* auth-helpers, action 'create_default_admin'

\* bootInsertAsAdmin: as bootInsert, with role 'admin' for the default user
bootInsertAsAdmin(rows) ==
  IF \E r \in rows : r.username = "admin" THEN rows
  ELSE rows \cup { [id |-> FreshId, username |-> "admin",
                    password |-> Hash("admin123"), role |-> "admin"] }

\* insert {username: 'admin', password: hash('admin123'), role: 'super_admin'};
\* users.username is UNIQUE: the insert of a second 'admin' is an error
bootInsert(rows) ==
  IF \E r \in rows : r.username = "admin" THEN rows
  ELSE rows \cup { [id |-> FreshId, username |-> "admin",
                    password |-> Hash("admin123"), role |-> "super_admin"] }

\* select id from users where username = 'admin': found -> {success: true,
\* message: 'Admin user already exists'} is returned; not found -> the
\* handler goes on to the insert
ServeBootCheck ==
  /\ boots.sent > 0
  /\ boots' = IF \E r \in users : r.username = "admin"
                THEN [boots EXCEPT !.sent = @ - 1,
                                   !.resp = [success |-> TRUE,
                                             message |-> "Admin user already exists"]]
                ELSE [boots EXCEPT !.sent = @ - 1, !.checked = @ + 1]
  /\ lastOp' = "ServeBootCheck"
  /\ UNCHANGED <<users, logins, phase, user, loading, localStorage, path, rendered,
                 menu, quick, isLoading, error, loginResult, sinceLogout, console>>
  /\ UNCHANGED offTab

\* the insert of the handler, and its response (which the client only logs):
\* {error} when the insert failed, {success: true, message: 'Default admin
\* user created'} otherwise
ServeBootInsert ==
  /\ boots.checked > 0
  /\ users' = bootInsert(users)
  /\ boots' = [boots EXCEPT !.checked = @ - 1,
                            !.resp = IF \E r \in users : r.username = "admin"
                                       THEN [success |-> FALSE, message |-> "duplicate key"]
                                       ELSE [success |-> TRUE,
                                             message |-> "Default admin user created"]]
  /\ lastOp' = "ServeBootInsert"
  /\ UNCHANGED <<logins, phase, user, loading, localStorage, path, rendered,
                 menu, quick, isLoading, error, loginResult, sinceLogout, console>>
  /\ UNCHANGED offTab

----------------------------------------------------------------------------
\* auth-helpers, action 'create_user', and the requests of other clients

ReqSlots == 1..MaxRequests
FreeReq  == [stage |-> "free", username |-> "", password |-> "", role |-> "",
             resp |-> [status |-> 0, success |-> FALSE, user |-> NullUser,
                       error |-> ""]]

\* what is posted to create_user: a taken username, the default admin's
\* username, a new username
NewUsers == { [username |-> "manager", password |-> "pw1", role |-> "sales_staff"],
              [username |-> "admin",   password |-> "pw2", role |-> "admin"],
              [username |-> "newbie",  password |-> "pw3", role |-> "sales_staff"] }

\* insertUserNoUnique: as insertUser, on a table without the UNIQUE constraint
insertUserNoUnique(rows, username, hashedPassword, role) ==
  LET row == [id |-> FreshId, username |-> username,
              password |-> hashedPassword, role |-> role]
  IN  [rows |-> rows \cup {row}, error |-> "", row |-> row]

\* supabase.from('users').insert([{username, password, role}]).select()
\* .single() on users(id DEFAULT gen_random_uuid(), username UNIQUE): a
\* duplicate username is an error and nothing is written
insertUser(rows, username, hashedPassword, role) ==
  IF \E r \in rows : r.username = username
    THEN [rows |-> rows,
          error |-> "duplicate key value violates unique constraint",
          row |-> [id |-> "", username |-> "", password |-> "", role |-> ""]]
    ELSE LET row == [id |-> FreshId, username |-> username,
                     password |-> hashedPassword, role |-> role]
         IN  [rows |-> rows \cup {row}, error |-> "", row |-> row]

\* a client posts {action: 'create_user', username, password, role}
SendCreateUser(username, password, role) ==
  /\ \E s \in ReqSlots :
       /\ reqs[s].stage = "free"
       /\ \A t \in ReqSlots : t < s => reqs[t].stage # "free"
       /\ reqs' = [reqs EXCEPT ![s] =
                     [FreeReq EXCEPT !.stage = "sent", !.username = username,
                                     !.password = password, !.role = role]]
  /\ lastOp' = "SendCreateUser"
  /\ UNCHANGED <<users, boots, logins, phase, user, loading, localStorage, path,
                 rendered, menu, quick, isLoading, error, loginResult, sinceLogout,
                 console>>
  /\ UNCHANGED <<storeVars, reportVars, formVars>>

\* auth-helpers serves a create_user request: hash, insert; if (error) a 400
\* {error: error.message}, otherwise {success: true, user: {id, username, role}}
ServeCreateUser(s) ==
  /\ reqs[s].stage = "sent"
  /\ LET ins == insertUser(users, reqs[s].username, Hash(reqs[s].password),
                           reqs[s].role)
     IN  /\ users' = ins.rows
         /\ reqs' = [reqs EXCEPT ![s].stage = "done",
                       ![s].resp =
                         IF ins.error # ""
                           THEN [status |-> 400, success |-> FALSE, user |-> NullUser,
                                 error |-> ins.error]
                           ELSE [status |-> 200, success |-> TRUE,
                                 user |-> [id |-> ins.row.id,
                                           username |-> ins.row.username,
                                           role |-> ins.row.role],
                                 error |-> ""]]
  /\ lastOp' = "ServeCreateUser"
  /\ UNCHANGED <<boots, logins, phase, user, loading, localStorage, path,
                 rendered, menu, quick, isLoading, error, loginResult, sinceLogout,
                 console>>
  /\ UNCHANGED <<storeVars, reportVars, formVars>>

\* the client reads the response of its create_user request
ReceiveCreateUser(s) ==
  /\ reqs[s].stage = "done"
  /\ reqs' = [reqs EXCEPT ![s] = FreeReq]
  /\ lastOp' = "ReceiveCreateUser"
  /\ UNCHANGED <<users, boots, logins, phase, user, loading, localStorage, path,
                 rendered, menu, quick, isLoading, error, loginResult, sinceLogout,
                 console>>
  /\ UNCHANGED <<storeVars, reportVars, formVars>>

\* another browser starts the application: the useEffect of its AuthProvider
\* fires createDefaultAdmin()
OtherTabStart ==
  /\ BootCount < MaxTabs
  /\ boots' = [boots EXCEPT !.sent = @ + 1]
  /\ lastOp' = "OtherTabStart"
  /\ UNCHANGED <<users, logins, phase, user, loading, localStorage, path,
                 rendered, menu, quick, isLoading, error, loginResult, sinceLogout,
                 console>>
  /\ UNCHANGED offTab

\* rows of the seed that are no longer in the table as seeded
Edits == Cardinality({ r \in SeedUsers : r \notin users })

\* The row of the stored session's user is changed from outside the
\* application (SQL on table users): deleted, or given another role
RemoteRowChanged(r, change) ==
  /\ localStorage # << >>
  /\ r \in users
  /\ r.id = Parse(localStorage).id
  /\ Edits < MaxEdits
  /\ change # r.role
  /\ users' = IF change = "deleted" THEN users \ {r}
              ELSE (users \ {r}) \cup { [r EXCEPT !.role = change] }
  /\ lastOp' = "RemoteRowChanged"
  /\ UNCHANGED <<boots, logins, phase, user, loading, localStorage, path,
                 rendered, menu, quick, isLoading, error, loginResult, sinceLogout,
                 console>>
  /\ UNCHANGED offTab

----------------------------------------------------------------------------
\* The stock store: tables products, stock_entries, sales and their triggers

Products == {"p1", "p2"}
Clients  == {"c1", "c2"}

\* the page a client has open
PageOf(c) == cPage[c]

\* stockTriggerAll: as update_product_quantity_on_stock, without the WHERE
stockTriggerAll(q, new) == [p \in Products |-> q[p] + new.quantity]

\* update_product_quantity_on_stock: UPDATE products SET quantity =
\* quantity + NEW.quantity WHERE id = NEW.product_id
update_product_quantity_on_stock(q, new) ==
  [p \in Products |-> IF p = new.product_id THEN q[p] + new.quantity ELSE q[p]]

\* saleTriggerGuarded: as decrease_product_quantity_on_sale, never below zero
saleTriggerGuarded(q, new) ==
  [p \in Products |->
     IF p = new.product_id /\ q[p] >= new.quantity THEN q[p] - new.quantity ELSE q[p]]

\* decrease_product_quantity_on_sale: UPDATE products SET quantity =
\* quantity - NEW.quantity WHERE id = NEW.product_id
decrease_product_quantity_on_sale(q, new) ==
  [p \in Products |-> IF p = new.product_id THEN q[p] - new.quantity ELSE q[p]]

\* Sales fetchData: products with .gt('quantity', 0); Stock Entries fetchData:
\* all products
ProductsQuery(page) ==
  LET shown == IF page = "Sales" THEN { p \in Products : quantity[p] > 0 }
               ELSE Products
  IN  [p \in shown |-> quantity[p]]

RowsQuery(page) == IF page = "Sales" THEN salesRows ELSE stockRows

\* preCheckNoStock: as preCheck, without the stock comparison
preCheckNoStock(products, product_id, qty) == product_id \in DOMAIN products

\* preCheckLenient: as preCheck, allowing one unit more than the list shows
preCheckLenient(products, product_id, qty) ==
  /\ product_id \in DOMAIN products
  /\ ~(qty > products[product_id] + 1)

\* Sales onSubmit: selectedProduct = products.find(p => p.id === product_id);
\* if (!selectedProduct) return; if (quantity > selectedProduct.quantity) return
preCheck(products, product_id, qty) ==
  /\ product_id \in DOMAIN products
  /\ ~(qty > products[product_id])

Remove(seq, i) == [j \in 1..(Len(seq) - 1) |-> IF j < i THEN seq[j] ELSE seq[j + 1]]

\* sum of f[x] over x in S
RECURSIVE SumFn(_, _)
SumFn(f, S) ==
  IF S = {} THEN 0
  ELSE LET x == CHOOSE y \in S : TRUE IN f[x] + SumFn(f, S \ {x})

InsertsInFlight ==
  SumFn([c \in Clients |->
           Cardinality({ k \in 1..Len(calls[c]) : calls[c][k].stage = "insert" })],
        Clients)

CallsInFlight == SumFn([c \in Clients |-> Len(calls[c])], Clients)

RowBudgetLeft == Len(salesRows) + Len(stockRows) + InsertsInFlight < MaxRows

\* an invocation in flight
Call(kind, product_id, qty, seen, stage) ==
  [kind |-> kind, product_id |-> product_id, quantity |-> qty, seen |-> seen,
   stage |-> stage, products |-> << >>, rows |-> << >>]

----------------------------------------------------------------------------
\* The Sales and Stock Entries pages

\* "Record Sale" / "Add Stock" button: setShowModal(true)
OpenModal(c) ==
  /\ ~cLoading[c]
  /\ ~cModal[c]
  /\ cModal' = [cModal EXCEPT ![c] = TRUE]
  /\ UNCHANGED <<quantity, salesRows, stockRows, cProducts, cRows, cLoading,
                 calls, initQty, cPage, cAlert>>
  /\ UNCHANGED offStore

\* Cancel button: handleCloseModal()
CancelModal(c) ==
  /\ cModal[c]
  /\ cModal' = [cModal EXCEPT ![c] = FALSE]
  /\ cAlert' = [cAlert EXCEPT ![c] = ""]
  /\ UNCHANGED <<quantity, salesRows, stockRows, cProducts, cRows, cLoading,
                 calls, initQty, cPage>>
  /\ UNCHANGED offStore

\* Sales onSubmit up to the insert: the pre-check against the page's
\* `products` (alert and return when it fails), then
\* supabase.from('sales').insert([...]) is sent
SubmitSale(c, product_id, qty) ==
  /\ PageOf(c) = "Sales"
  /\ cModal[c]
  /\ IF preCheck(cProducts[c], product_id, qty)
       THEN /\ CallsInFlight < MaxPending
            /\ RowBudgetLeft
            /\ calls' = [calls EXCEPT ![c] =
                 Append(@, Call("sale", product_id, qty,
                                cProducts[c][product_id], "insert"))]
            /\ cAlert' = [cAlert EXCEPT ![c] = ""]
       ELSE /\ calls' = calls
            /\ cAlert' = [cAlert EXCEPT ![c] =
                 IF product_id \notin DOMAIN cProducts[c]
                   THEN "Please select a product"
                   ELSE "Insufficient stock"]
  /\ UNCHANGED <<quantity, salesRows, stockRows, cProducts, cRows, cLoading,
                 cModal, initQty, cPage>>
  /\ UNCHANGED offStore

\* Stock Entries onSubmit up to the insert: no check,
\* supabase.from('stock_entries').insert([...]) is sent
SubmitStock(c, product_id, qty) ==
  /\ PageOf(c) = "StockEntries"
  /\ cModal[c]
  /\ product_id \in DOMAIN cProducts[c]
  /\ CallsInFlight < MaxPending
  /\ RowBudgetLeft
  /\ calls' = [calls EXCEPT ![c] =
       Append(@, Call("stock", product_id, qty, cProducts[c][product_id], "insert"))]
  /\ UNCHANGED <<quantity, salesRows, stockRows, cProducts, cRows, cLoading,
                 cModal, initQty, cPage, cAlert>>
  /\ UNCHANGED offStore

\* fetchDataWithSpinner: as fetchDataStart, with setLoading(true) first
fetchDataWithSpinner(l, c) == [l EXCEPT ![c] = TRUE]

\* fetchData begins: try { await Promise.all([...]) }; `loading` is written
\* in its finally block only
fetchDataStart(l, c) == l

\* upsert: as insert, replacing the row of the same product if there is one
upsert(rows, new) ==
  IF \E j \in 1..Len(rows) : rows[j].product_id = new.product_id
    THEN [j \in 1..Len(rows) |->
            IF rows[j].product_id = new.product_id THEN new ELSE rows[j]]
    ELSE Append(rows, new)

\* supabase.from('sales' | 'stock_entries').insert([new]): one new row
insert(rows, new) == Append(rows, new)

\* The store executes an insert: the row is added and the AFTER INSERT
\* trigger of its table updates products, in one transaction. onSubmit, on the
\* response without error, goes on to `await fetchData()`: both queries are
\* sent (no page state changes in between)
ServeInsert(c, i) ==
  /\ i \in 1..Len(calls[c])
  /\ calls[c][i].stage = "insert"
  /\ LET new == [product_id |-> calls[c][i].product_id,
                 quantity |-> calls[c][i].quantity, by |-> c]
     IN  IF calls[c][i].kind = "sale"
           THEN /\ salesRows' = insert(salesRows, new)
                /\ quantity' = decrease_product_quantity_on_sale(quantity, new)
                /\ stockRows' = stockRows
           ELSE /\ stockRows' = insert(stockRows, new)
                /\ quantity' = update_product_quantity_on_stock(quantity, new)
                /\ salesRows' = salesRows
  /\ calls' = [calls EXCEPT ![c][i].stage = "fetch"]
  /\ cLoading' = fetchDataStart(cLoading, c)
  /\ UNCHANGED <<cProducts, cRows, cModal, initQty, cPage, cAlert>>
  /\ UNCHANGED offStore

\* The insert fails (request or store error), nothing is written; onSubmit:
\* if (error) throw error -> catch, console.error: no fetchData, the modal
\* stays as it is
FailInsert(c, i) ==
  /\ i \in 1..Len(calls[c])
  /\ calls[c][i].stage = "insert"
  /\ calls' = [calls EXCEPT ![c] = Remove(@, i)]
  /\ UNCHANGED <<quantity, salesRows, stockRows, cProducts, cRows, cLoading,
                 cModal, initQty, cPage, cAlert>>
  /\ UNCHANGED offStore

\* The store answers the two queries of fetchData
ServeFetch(c, i) ==
  /\ i \in 1..Len(calls[c])
  /\ calls[c][i].stage = "fetch"
  /\ calls' = [calls EXCEPT ![c][i].stage = "fetched",
                            ![c][i].products = ProductsQuery(PageOf(c)),
                            ![c][i].rows = RowsQuery(PageOf(c))]
  /\ UNCHANGED <<quantity, salesRows, stockRows, cProducts, cRows, cLoading,
                 cModal, initQty, cPage, cAlert>>
  /\ UNCHANGED offStore

\* AfterFetchDataKeepModal: as AfterFetchData, without handleCloseModal()
AfterFetchDataKeepModal(c, i) ==
  /\ cModal' = cModal
  /\ cAlert' = cAlert
  /\ calls' = [calls EXCEPT ![c] = Remove(@, i)]

\* What follows fetchData in the invocation: handleCloseModal() in onSubmit,
\* nothing in the useEffect of the mount
AfterFetchData(c, i) ==
  /\ cModal' = IF calls[c][i].kind = "mount" THEN cModal
               ELSE [cModal EXCEPT ![c] = FALSE]
  /\ cAlert' = IF calls[c][i].kind = "mount" THEN cAlert
               ELSE [cAlert EXCEPT ![c] = ""]
  /\ calls' = [calls EXCEPT ![c] = Remove(@, i)]

\* fetchData receives both results: setProducts, setSales / setStockEntries,
\* finally setLoading(false)
FetchDone(c, i) ==
  /\ i \in 1..Len(calls[c])
  /\ calls[c][i].stage = "fetched"
  /\ cProducts' = [cProducts EXCEPT ![c] = calls[c][i].products]
  /\ cRows' = [cRows EXCEPT ![c] = calls[c][i].rows]
  /\ cLoading' = [cLoading EXCEPT ![c] = FALSE]
  /\ AfterFetchData(c, i)
  /\ UNCHANGED <<quantity, salesRows, stockRows, initQty, cPage>>
  /\ UNCHANGED offStore

\* FetchFailedNoFinally: as FetchFailed, without the finally block
FetchFailedNoFinally(c, i) ==
  /\ i \in 1..Len(calls[c])
  /\ calls[c][i].stage \in {"fetch", "fetched"}
  /\ cLoading' = cLoading
  /\ AfterFetchData(c, i)
  /\ UNCHANGED <<quantity, salesRows, stockRows, cProducts, cRows, initQty, cPage>>
  /\ UNCHANGED offStore

\* A query of fetchData fails: throw -> catch, console.error; the page keeps
\* its data; finally setLoading(false)
FetchFailed(c, i) ==
  /\ i \in 1..Len(calls[c])
  /\ calls[c][i].stage \in {"fetch", "fetched"}
  /\ cLoading' = [cLoading EXCEPT ![c] = FALSE]
  /\ AfterFetchData(c, i)
  /\ UNCHANGED <<quantity, salesRows, stockRows, cProducts, cRows, initQty, cPage>>
  /\ UNCHANGED offStore

\* The user of a browser leaves the stock page c (a sidebar link of Layout or
\* the history) and opens stock page d: the router unmounts c and mounts d,
\* whose useEffect sends fetchData. The requests of c in flight go on; its
\* state is no longer on screen. cPage[c] records whether c was left with a
\* submission in flight.
Remount(c, d, page) ==
  /\ PageOf(c) \in {"Sales", "StockEntries"}
  /\ PageOf(d) = "None"
  /\ CallsInFlight < MaxPending
  /\ cPage' = [cPage EXCEPT
                 ![c] = IF \E i \in 1..Len(calls[c]) : calls[c][i].kind # "mount"
                          THEN "LeftBusy" ELSE "Left",
                 ![d] = page]
  /\ cModal' = [cModal EXCEPT ![c] = FALSE]
  /\ cAlert' = [cAlert EXCEPT ![c] = ""]
  /\ calls' = [calls EXCEPT ![d] = << Call("mount", "", 0, 0, "fetch") >>]
  /\ UNCHANGED <<quantity, salesRows, stockRows, cProducts, cRows, cLoading, initQty>>
  /\ UNCHANGED offStore

----------------------------------------------------------------------------
\* The reports: Analytics and Dashboard

\* ---- the calendar of new Date() and date-fns; a date is a day number,
\* day 0 being 2023-01-01

IsLeap(y) == (y % 4 = 0 /\ y % 100 # 0) \/ y % 400 = 0

DaysInMonth(y, m) ==
  IF m = 2 THEN (IF IsLeap(y) THEN 29 ELSE 28)
  ELSE IF m \in {4, 6, 9, 11} THEN 30 ELSE 31

RECURSIVE DateFrom(_, _, _)
DateFrom(n, y, m) ==
  IF n < DaysInMonth(y, m) THEN [y |-> y, m |-> m, d |-> n + 1]
  ELSE DateFrom(n - DaysInMonth(y, m), IF m = 12 THEN y + 1 ELSE y,
                IF m = 12 THEN 1 ELSE m + 1)

\* the calendar date (year, month, day of month) of a day number
ToDate(n) == DateFrom(n, 2023, 1)

\* date-fns
subDays(n, amount) == n - amount
startOfMonth(n) == n - (ToDate(n).d - 1)
endOfMonth(n) == n + (DaysInMonth(ToDate(n).y, ToDate(n).m) - ToDate(n).d)
\* format(date, 'yyyy-MM-dd'): the text of a calendar date, which the store
\* reads as a value of type date
format(n) == ToDate(n)
\* format(date, 'MMM yyyy')
monthName(n) == [y |-> ToDate(n).y, m |-> ToDate(n).m]

\* comparison of values of column `date`: .gte / .lte / .eq
DateLeq(a, b) ==
  \/ a.y < b.y
  \/ a.y = b.y /\ a.m < b.m
  \/ a.y = b.y /\ a.m = b.m /\ a.d <= b.d

\* .gte('date', lo).lte('date', hi) on the rows of sales
DateRange(rows, lo, hi) ==
  SelectSeq(rows, LAMBDA r : DateLeq(lo, r.date) /\ DateLeq(r.date, hi))

\* reduce((sum, x) => sum + x, 0) over a list of numbers
RECURSIVE SumSeq(_)
SumSeq(seq) == IF seq = << >> THEN 0 ELSE Head(seq) + SumSeq(Tail(seq))

\* RevenueOfPrices: as Revenue, forgetting the quantity
RevenueOfPrices(rows) == SumSeq([i \in 1..Len(rows) |-> rows[i].price])

\* reduce((sum, sale) => sum + (sale.price * sale.quantity), 0)
Revenue(rows) == SumSeq([i \in 1..Len(rows) |-> rows[i].price * rows[i].quantity])
\* reduce((sum, sale) => sum + (sale.products.buy_price * sale.quantity), 0)
Cost(rows) ==
  SumSeq([i \in 1..Len(rows) |->
            catalog[rows[i].product_id].buy_price * rows[i].quantity])
\* reduce((sum, sale) => sum + sale.quantity, 0)
Units(rows) == SumSeq([i \in 1..Len(rows) |-> rows[i].quantity])

\* ---- the data the reports read

RankProducts == {"p1", "p2", "p3", "p4", "p5", "p6"}
RankOrder    == <<"p1", "p2", "p3", "p4", "p5", "p6">>

\* table products (id, name, sku UNIQUE, buy_price, sell_price, quantity),
\* with the given names and skus for p1 and p2
CatalogOf(n1, s1, n2, s2) ==
  [p \in RankProducts |->
     CASE p = "p1" -> [name |-> n1, sku |-> s1, buy_price |-> 60, sell_price |-> 1, quantity |-> 4]
       [] p = "p2" -> [name |-> n2, sku |-> s2, buy_price |-> 20, sell_price |-> 2, quantity |-> 0]
       [] p = "p3" -> [name |-> "shirt", sku |-> "s3", buy_price |-> 1, sell_price |-> 3, quantity |-> 1]
       [] p = "p4" -> [name |-> "tie",   sku |-> "s4", buy_price |-> 1, sell_price |-> 1, quantity |-> 1]
       [] p = "p5" -> [name |-> "belt",  sku |-> "s5", buy_price |-> 1, sell_price |-> 2, quantity |-> 1]
       [] p = "p6" -> [name |-> "sock",  sku |-> "s6", buy_price |-> 1, sell_price |-> 3, quantity |-> 1]]

\* p1 and p2: names and skus with and without '-', equal and different names
Catalogs ==
  { CatalogOf(a[1], a[2], b[1], b[2]) :
      a \in { <<"a-b", "c">>, <<"a", "c">> }, b \in { <<"a", "b-c">>, <<"a", "d">> } }

PlainCatalog == CatalogOf("a", "c", "a", "d")

\* tables products of up to three rows, none included, with every quantity
\* on hand up to MaxUnits
StockProducts == {"p1", "p2", "p3"}
StockCatalogs ==
  UNION { { [p \in S |-> [PlainCatalog[p] EXCEPT !.quantity = q[p]]] :
              q \in [S -> 0..MaxUnits] } : S \in SUBSET StockProducts }

\* the current dates of the reports
Todays == FirstToday..LastToday

\* what a sale row dated around today holds: 3 x 100 of p1, 2 x 50 of p2,
\* dated tomorrow, today, 7, 8 or 35 days ago
DatedKinds == { [product_id |-> "p1", quantity |-> 3, price |-> 100],
                [product_id |-> "p2", quantity |-> 2, price |-> 50],
                [product_id |-> "p2", quantity |-> 1, price |-> 0] }
DateOffsets == {1, 0, -7, -8, -35}

DatedRows(t) ==
  { [product_id |-> k.product_id, quantity |-> k.quantity, price |-> k.price,
     date |-> ToDate(t + off)] : k \in DatedKinds, off \in DateOffsets }

\* the data sets with dates around today: up to MaxDated rows
DatedSales(t) == UNION { [1..n -> DatedRows(t)] : n \in 0..MaxDated }

\* one sale per product sold, at its sell price, dated t, in the order of ids
RankRows(sold, t, cat) ==
  LET ids == SelectSeq(RankOrder, LAMBDA p : sold[p] > 0)
  IN  [i \in 1..Len(ids) |->
         [product_id |-> ids[i], quantity |-> sold[ids[i]],
          price |-> cat[ids[i]].sell_price, date |-> ToDate(t)]]

\* the data sets for the ranking: per product up to MaxUnits sold in one
\* sale, and possibly one more sale of some product at a raised price
RankingSales(t, cat) ==
  { RankRows(sold, t, cat) \o extra :
      sold \in [RankProducts -> 0..MaxUnits],
      extra \in { << >> } \cup
                { << [product_id |-> p, quantity |-> 1,
                      price |-> cat[p].sell_price + 1, date |-> ToDate(t)] >> :
                  p \in RankProducts } }

\* ---- Analytics

MonthsBack == 5    \* for (let i = 5; i >= 0; i--)
StepDays   == 30   \* subDays(new Date(), i * 30)
TopCount   == 5    \* .slice(0, 5)

\* Analytics: useState({totalRevenue: 0, ...})
ZeroAnalytics == [totalRevenue |-> 0, totalProfit |-> 0, totalSales |-> 0,
                  profitMargin |-> [num |-> 0, den |-> 1]]

\* one pass of the loop of fetchAnalyticsData: the month of the day
\* i * 30 days before today, and the sales dated within it
\* (answered: the query returned data; otherwise `sales` is null and
\* sales?.reduce(...) || 0, sales?.length || 0 give 0)
MonthEntry(i, answered) ==
  LET date       == subDays(today, i * StepDays)
      monthStart == format(startOfMonth(date))
      monthEnd   == format(endOfMonth(date))
      sales      == IF answered THEN DateRange(salesTbl, monthStart, monthEnd)
                    ELSE << >>
      revenue    == Revenue(sales)
      cost       == Cost(sales)
  IN  [month |-> monthName(date), revenue |-> revenue, cost |-> cost,
       profit |-> revenue - cost, sales |-> Len(sales)]

\* months: the entries pushed for i = 5, 4, ..., 0
Months(ok) ==
  [k \in 1..(MonthsBack + 1) |->
     MonthEntry(MonthsBack + 1 - k, ok.months[MonthsBack + 1 - k])]

\* the key of a sale in productMap: `${name}-${sku}`
ProductKey(sale) ==
  catalog[sale.product_id].name \o "-" \o catalog[sale.product_id].sku

\* topProductsData.forEach(...): the rows of productMap in insertion order
RECURSIVE BuildProductMap(_, _)
BuildProductMap(rows, acc) ==
  IF rows = << >> THEN acc
  ELSE LET sale == Head(rows)
           key  == ProductKey(sale)
           hit  == { j \in 1..Len(acc) : acc[j].key = key }
       IN  IF hit # {}
             THEN LET j == CHOOSE x \in hit : TRUE
                  IN  BuildProductMap(Tail(rows),
                        [acc EXCEPT ![j].totalSold = @ + sale.quantity,
                                    ![j].revenue = @ + sale.price * sale.quantity])
             ELSE BuildProductMap(Tail(rows),
                    Append(acc, [key |-> key,
                                 name |-> catalog[sale.product_id].name,
                                 sku |-> catalog[sale.product_id].sku,
                                 totalSold |-> sale.quantity,
                                 revenue |-> sale.price * sale.quantity]))

\* InsertAscending: as InsertDescending, smallest revenue first
RECURSIVE InsertAscending(_, _)
InsertAscending(x, sorted) ==
  IF sorted = << >> THEN << x >>
  ELSE IF Head(sorted).revenue >= x.revenue THEN << x >> \o sorted
  ELSE << Head(sorted) >> \o InsertAscending(x, Tail(sorted))

\* .sort((a, b) => b.revenue - a.revenue), a stable sort: x, which came
\* before every row of `sorted`, goes before the first row that is not larger
RECURSIVE InsertDescending(_, _)
InsertDescending(x, sorted) ==
  IF sorted = << >> THEN << x >>
  ELSE IF Head(sorted).revenue <= x.revenue THEN << x >> \o sorted
  ELSE << Head(sorted) >> \o InsertDescending(x, Tail(sorted))

RECURSIVE SortByRevenue(_)
SortByRevenue(rows) ==
  IF rows = << >> THEN << >>
  ELSE InsertDescending(Head(rows), SortByRevenue(Tail(rows)))

\* Array.from(productMap.values()).sort(...).slice(0, 5)
\* (topProductsData null when the query failed: the map stays empty)
TopProductsArray(answered) ==
  LET sorted == SortByRevenue(BuildProductMap(IF answered THEN salesTbl ELSE << >>,
                                              << >>))
      top    == SubSeq(sorted, 1, IF Len(sorted) < TopCount THEN Len(sorted)
                                  ELSE TopCount)
  IN  [i \in 1..Len(top) |->
         [name |-> top[i].name, sku |-> top[i].sku,
          totalSold |-> top[i].totalSold, revenue |-> top[i].revenue]]

\* OverallStatsUnguarded: as OverallStats, without the test totalRevenue > 0
OverallStatsUnguarded(months) ==
  LET totalRevenue == SumSeq([k \in 1..Len(months) |-> months[k].revenue])
      totalCost    == SumSeq([k \in 1..Len(months) |-> months[k].cost])
      totalProfit  == totalRevenue - totalCost
      totalSales   == SumSeq([k \in 1..Len(months) |-> months[k].sales])
  IN  [totalRevenue |-> totalRevenue, totalProfit |-> totalProfit,
       totalSales |-> totalSales,
       profitMargin |-> [num |-> totalProfit * 100, den |-> totalRevenue]]

\* the overall stats: totals over `months`; profitMargin = totalRevenue > 0 ?
\* (totalProfit / totalRevenue) * 100 : 0, kept as a fraction
OverallStats(months) ==
  LET totalRevenue == SumSeq([k \in 1..Len(months) |-> months[k].revenue])
      totalCost    == SumSeq([k \in 1..Len(months) |-> months[k].cost])
      totalProfit  == totalRevenue - totalCost
      totalSales   == SumSeq([k \in 1..Len(months) |-> months[k].sales])
  IN  [totalRevenue |-> totalRevenue, totalProfit |-> totalProfit,
       totalSales |-> totalSales,
       profitMargin |-> IF totalRevenue > 0
                          THEN [num |-> totalProfit * 100, den |-> totalRevenue]
                          ELSE [num |-> 0, den |-> 1]]

\* the number of queries of a fetch that returned an error
Failed(f) == Cardinality({ q \in DOMAIN f : ~f[q] })

\* what the queries of fetchAnalyticsData return: data, or an error with data
\* null (the code reads `data` only); the six month queries, sent one after
\* the other in the loop, are answered alike
AnalyticsAnswers ==
  [months : { [i \in 0..MonthsBack |-> b] : b \in BOOLEAN }, top : BOOLEAN]

\* Analytics useEffect -> fetchAnalyticsData, the queries answered as in ok:
\* setMonthlyData, setTopProducts, setStats, finally setLoading(false)
fetchAnalyticsData(ok) ==
  /\ aLoading
  /\ monthlyData' = Months(ok)
  /\ topProducts' = TopProductsArray(ok.top)
  /\ aStats' = OverallStats(monthlyData')
  /\ aLoading' = FALSE
  /\ aReplies' = ok
  /\ UNCHANGED <<today, catalog, salesTbl, dashStats, dLoading, dReplies>>
  /\ UNCHANGED <<authVars, storeVars, svcVars, formVars>>

\* ---- Dashboard

WeekDays == 7   \* Date.now() - 7 * 24 * 60 * 60 * 1000

\* Dashboard: useState<DashboardStats>({...}), every figure 0
ZeroStats == [totalProducts |-> 0, totalStockValue |-> 0, monthlyRevenue |-> 0,
              monthlyCost |-> 0, monthlyProfit |-> 0, totalUsers |-> 0,
              todaysSales |-> 0, weekSales |-> 0]

\* StockValueOfPrices: as StockValue, the buy prices alone
StockValueOfPrices(products) ==
  SumFn([p \in DOMAIN products |-> products[p].buy_price], DOMAIN products)

\* products.reduce((sum, product) => sum + (product.buy_price *
\* product.quantity), 0)
StockValue(products) ==
  SumFn([p \in DOMAIN products |-> products[p].buy_price * products[p].quantity],
        DOMAIN products)

\* from('sales').select('quantity').gte('date', weekAgo)
WeekSalesData(rows, weekAgo, day) ==
  SelectSeq(rows, LAMBDA r : DateLeq(weekAgo, r.date))

\* from('sales').select('quantity').eq('date', today)
TodaysSalesData(rows, day) == SelectSeq(rows, LAMBDA r : r.date = day)

\* the queries fetchDashboardStats sends for the session user u: the users
\* table is read inside if (user?.role === 'super_admin')
DashboardQueries(u) ==
  {"products", "monthlySales", "todaysSales", "weekSales"}
    \cup (IF u.role = "super_admin" THEN {"users"} ELSE {})

\* what the queries return: data, or an error with data null (the code reads
\* `data` only)
DashboardAnswers(u) ==
  { ok \in [DashboardQueries(u) -> BOOLEAN] : Failed(ok) <= MaxFailed }

\* the figures fetchDashboardStats computes for the session user u, the
\* queries answered as in ok: data?.reduce(...) || 0 is 0 for data null
DashboardStats(u, ok) ==
  LET monthStart   == format(startOfMonth(today))
      monthEnd     == format(endOfMonth(today))
      day          == format(today)
      weekAgo      == format(today - WeekDays)
      monthlySales == IF ok["monthlySales"]
                        THEN DateRange(salesTbl, monthStart, monthEnd) ELSE << >>
      revenue      == Revenue(monthlySales)
      cost         == Cost(monthlySales)
  IN  [totalProducts   |-> IF ok["products"] THEN Cardinality(DOMAIN catalog) ELSE 0,
       totalStockValue |-> IF ok["products"] THEN StockValue(catalog) ELSE 0,
       monthlyRevenue  |-> revenue,
       monthlyCost     |-> cost,
       monthlyProfit   |-> revenue - cost,
       totalUsers      |-> IF u.role = "super_admin" /\ ok["users"]
                             THEN Cardinality(users) ELSE 0,
       todaysSales     |-> IF ok["todaysSales"]
                             THEN Units(TodaysSalesData(salesTbl, day)) ELSE 0,
       weekSales       |-> IF ok["weekSales"]
                             THEN Units(WeekSalesData(salesTbl, weekAgo, day)) ELSE 0]

\* DashboardCardsForAll: as DashboardCards, the admin cards for every role
DashboardCardsForAll(u, stats, busy) ==
  IF busy THEN << >>
  ELSE [t \in {"Total Products", "Stock Value", "Monthly Revenue",
               "Monthly Cost", "Monthly Profit"} |->
          CASE t = "Total Products"    -> stats.totalProducts
            [] t = "Stock Value"       -> stats.totalStockValue
            [] t = "Monthly Revenue"   -> stats.monthlyRevenue
            [] t = "Monthly Cost"      -> stats.monthlyCost
            [] OTHER                   -> stats.monthlyProfit]

\* the StatCards of the Dashboard for the session user u, by title; the
\* spinner alone while loading
DashboardCards(u, stats, busy) ==
  IF busy THEN << >>
  ELSE IF u.role = "sales_staff"
    THEN [t \in {"Today's Sales", "This Week's Sales", "Available Products"} |->
            CASE t = "Today's Sales"     -> stats.todaysSales
              [] t = "This Week's Sales" -> stats.weekSales
              [] OTHER                   -> stats.totalProducts]
    ELSE [t \in {"Total Products", "Stock Value", "Monthly Revenue",
                 "Monthly Cost", "Monthly Profit"}
                  \cup (IF u.role = "super_admin" THEN {"Total Users"} ELSE {}) |->
            CASE t = "Total Products"    -> stats.totalProducts
              [] t = "Stock Value"       -> stats.totalStockValue
              [] t = "Monthly Revenue"   -> stats.monthlyRevenue
              [] t = "Monthly Cost"      -> stats.monthlyCost
              [] t = "Monthly Profit"    -> stats.monthlyProfit
              [] OTHER                   -> stats.totalUsers]

\* Dashboard useEffect -> fetchDashboardStats, the queries answered as in ok:
\* setStats, finally setLoading(false)
fetchDashboardStats(ok) ==
  /\ dLoading
  /\ rendered = "Dashboard"
  /\ dashStats' = DashboardStats(user, ok)
  /\ dLoading' = FALSE
  /\ dReplies' = ok
  /\ UNCHANGED <<today, catalog, salesTbl, monthlyData, topProducts, aStats,
                 aLoading, aReplies>>
  /\ UNCHANGED <<authVars, storeVars, svcVars, formVars>>

----------------------------------------------------------------------------
\* Specifications

\* the tab not opened yet; the users table as the migrations leave it, with or
\* without the default admin row
AuthInit ==
  /\ users \in { SeedUsers, SeedUsers \ {AdminRow} }
  /\ boots = [sent |-> 0, checked |-> 0, resp |-> NoBootResp]
  /\ logins = [s \in Slots |-> Free]
  /\ phase = "closed"
  /\ user = NullUser
  /\ loading = TRUE
  /\ localStorage = << >>
  /\ path = "/"
  /\ rendered = "None"
  /\ menu = {}
  /\ quick = {}
  /\ isLoading = FALSE
  /\ error = ""
  /\ loginResult = "none"
  /\ lastOp = "Init"
  /\ sinceLogout = FALSE
  /\ console = ""

\* every client's page just mounted: loading, with the fetchData of its
\* useEffect in flight
StoreInit ==
  /\ initQty \in [Products -> 0..MaxInitQty]
  /\ quantity = initQty
  /\ salesRows = << >>
  /\ stockRows = << >>
  /\ cProducts = [c \in Clients |-> << >>]
  /\ cRows = [c \in Clients |-> << >>]
  /\ cLoading = [c \in Clients |-> TRUE]
  /\ cModal = [c \in Clients |-> FALSE]
  /\ calls = [c \in Clients |-> << Call("mount", "", 0, 0, "fetch") >>]
  /\ cPage \in { f \in [Clients -> {"Sales", "StockEntries"}] : f["c1"] = "Sales" }
  /\ cAlert = [c \in Clients |-> ""]

\* the store idle, for the specification of the tab
StoreIdle ==
  /\ initQty = [p \in Products |-> 0]
  /\ quantity = initQty
  /\ salesRows = << >>
  /\ stockRows = << >>
  /\ cProducts = [c \in Clients |-> << >>]
  /\ cRows = [c \in Clients |-> << >>]
  /\ cLoading = [c \in Clients |-> TRUE]
  /\ cModal = [c \in Clients |-> FALSE]
  /\ calls = [c \in Clients |-> << >>]
  /\ cPage = [c \in Clients |-> "Sales"]
  /\ cAlert = [c \in Clients |-> ""]

\* the tab closed, for the specification of the store
AuthIdle ==
  /\ users = SeedUsers
  /\ boots = [sent |-> 0, checked |-> 0, resp |-> NoBootResp]
  /\ logins = [s \in Slots |-> Free]
  /\ phase = "closed"
  /\ user = NullUser
  /\ loading = TRUE
  /\ localStorage = << >>
  /\ path = "/"
  /\ rendered = "None"
  /\ menu = {}
  /\ quick = {}
  /\ isLoading = FALSE
  /\ error = ""
  /\ loginResult = "none"
  /\ lastOp = "Init"
  /\ sinceLogout = FALSE
  /\ console = ""

\* no create_user request in flight
SvcIdle == reqs = [s \in ReqSlots |-> FreeReq]

\* the Record Sale form not rendered
FormIdle == form = << >>

\* the reports not opened: Analytics and Dashboard in their initial state
ReportsIdle ==
  /\ today = 0
  /\ catalog = << >>
  /\ salesTbl = << >>
  /\ monthlyData = << >>
  /\ topProducts = << >>
  /\ aStats = ZeroAnalytics
  /\ aLoading = TRUE
  /\ aReplies = << >>
  /\ dashStats = ZeroStats
  /\ dLoading = TRUE
  /\ dReplies = << >>

Init == AuthInit /\ StoreIdle /\ SvcIdle /\ ReportsIdle /\ FormIdle

Next ==
  \/ \E p \in Paths : OpenApp(p)
  \/ \E h \in GatedPaths : QuickAction(h)
  \/ HydrateEffect
  \/ \E p \in Paths : HistoryNavigate(p)
  \/ \E h \in GatedPaths : ClickMenu(h)
  \/ handleLogout
  \/ \E cr \in Credentials : LoginSubmit(cr[1], cr[2])
  \/ \E s \in Slots : ServeLogin(s)
  \/ \E s \in Slots : LoginThrows(s)
  \/ \E s \in Slots : LoginReturn(s)
  \/ ServeBootCheck
  \/ ServeBootInsert

Spec == Init /\ [][Next]_vars

InitStore == AuthIdle /\ StoreInit /\ SvcIdle /\ ReportsIdle /\ FormIdle

NextStore ==
  \/ \E c \in Clients : OpenModal(c)
  \/ \E c \in Clients : CancelModal(c)
  \/ \E c \in Clients, p \in Products, q \in 1..MaxQty : SubmitSale(c, p, q)
  \/ \E c \in Clients, p \in Products, q \in 1..MaxQty : SubmitStock(c, p, q)
  \/ \E c \in Clients, i \in 1..MaxPending : ServeInsert(c, i)
  \/ \E c \in Clients, i \in 1..MaxPending : FailInsert(c, i)
  \/ \E c \in Clients, i \in 1..MaxPending : ServeFetch(c, i)
  \/ \E c \in Clients, i \in 1..MaxPending : FetchDone(c, i)
  \/ \E c \in Clients, i \in 1..MaxPending : FetchFailed(c, i)

SpecStore == InitStore /\ [][NextStore]_vars

\* one browser on the stock pages and no other writer: its first page just
\* mounted, a second page instance not mounted yet; a form is submitted only
\* when every earlier invocation has finished, and the re-fetch of a
\* submission succeeds
InitSolo ==
  /\ AuthIdle
  /\ SvcIdle
  /\ FormIdle
  /\ ReportsIdle
  /\ initQty \in [Products -> 0..MaxInitQty]
  /\ quantity = initQty
  /\ salesRows = << >>
  /\ stockRows = << >>
  /\ cProducts = [c \in Clients |-> << >>]
  /\ cRows = [c \in Clients |-> << >>]
  /\ cLoading = [c \in Clients |-> TRUE]
  /\ cModal = [c \in Clients |-> FALSE]
  /\ calls = [c \in Clients |->
               IF c = "c1" THEN << Call("mount", "", 0, 0, "fetch") >> ELSE << >>]
  /\ \E page \in {"Sales", "StockEntries"} :
       cPage = [c \in Clients |-> IF c = "c1" THEN page ELSE "None"]
  /\ cAlert = [c \in Clients |-> ""]

NextSolo ==
  \/ \E c \in Clients : PageOf(c) \in {"Sales", "StockEntries"} /\ OpenModal(c)
  \/ \E c \in Clients : PageOf(c) \in {"Sales", "StockEntries"} /\ CancelModal(c)
  \/ \E c \in Clients, p \in Products, q \in 1..MaxQty :
       CallsInFlight = 0 /\ SubmitSale(c, p, q)
  \/ \E c \in Clients, p \in Products, q \in 1..MaxQty :
       CallsInFlight = 0 /\ SubmitStock(c, p, q)
  \/ \E c \in Clients, i \in 1..MaxPending : ServeInsert(c, i)
  \/ \E c \in Clients, i \in 1..MaxPending : FailInsert(c, i)
  \/ \E c \in Clients, i \in 1..MaxPending : ServeFetch(c, i)
  \/ \E c \in Clients, i \in 1..MaxPending : FetchDone(c, i)
  \/ \E c \in Clients, i \in 1..MaxPending :
       FetchFailed(c, i) /\ calls[c][i].kind = "mount"
  \/ \E page \in {"Sales", "StockEntries"} : Remount("c1", "c2", page)

SpecSolo == InitSolo /\ [][NextSolo]_vars

\* the tab, with the users table open to changes from outside the
\* application: a row is deleted or demoted
InitSession == Init /\ users = SeedUsers

NextSession ==
  \/ Next
  \/ \E r \in users, change \in {"sales_staff", "deleted"} : RemoteRowChanged(r, change)

SpecSession == InitSession /\ [][NextSession]_vars

\* the Analytics page just mounted, over a data set with dates around today
\* or a data set for the ranking
InitAnalytics ==
  /\ AuthIdle
  /\ StoreIdle
  /\ SvcIdle
  /\ FormIdle
  /\ \/ /\ today \in Todays
        /\ catalog = PlainCatalog
        /\ salesTbl \in DatedSales(today)
     \/ /\ today = FirstToday
        /\ catalog \in Catalogs
        /\ salesTbl \in RankingSales(today, catalog)
  /\ monthlyData = << >>
  /\ topProducts = << >>
  /\ aStats = ZeroAnalytics
  /\ aLoading = TRUE
  /\ aReplies = << >>
  /\ dashStats = ZeroStats
  /\ dLoading = TRUE
  /\ dReplies = << >>

NextAnalytics == \E ok \in AnalyticsAnswers : fetchAnalyticsData(ok)

SpecAnalytics == InitAnalytics /\ [][NextAnalytics]_vars

\* a logged-in tab whose Dashboard just mounted
Sessions == { [id |-> r.id, username |-> r.username, role |-> r.role] : r \in SeedUsers }

InitDashboard ==
  /\ users = SeedUsers
  /\ boots = [sent |-> 0, checked |-> 0, resp |-> NoBootResp]
  /\ logins = [s \in Slots |-> Free]
  /\ phase = "ready"
  /\ user \in Sessions
  /\ loading = FALSE
  /\ localStorage = Stringify(user)
  /\ path = "/"
  /\ rendered = Render("/", user).rendered
  /\ menu = Render("/", user).menu
  /\ quick = Render("/", user).quick
  /\ isLoading = FALSE
  /\ error = ""
  /\ loginResult = "none"
  /\ lastOp = "Init"
  /\ sinceLogout = FALSE
  /\ console = ""
  /\ StoreIdle
  /\ SvcIdle
  /\ FormIdle
  /\ \/ /\ today \in Todays
        /\ catalog = PlainCatalog
        /\ salesTbl \in DatedSales(today)
     \/ /\ today = FirstToday
        /\ catalog \in StockCatalogs
        /\ salesTbl = << >>
  /\ monthlyData = << >>
  /\ topProducts = << >>
  /\ aStats = ZeroAnalytics
  /\ aLoading = TRUE
  /\ aReplies = << >>
  /\ dashStats = ZeroStats
  /\ dLoading = TRUE
  /\ dReplies = << >>

NextDashboard == \E ok \in DashboardAnswers(user) : fetchDashboardStats(ok)

SpecDashboard == InitDashboard /\ [][NextDashboard]_vars

\* the paths of the four pages that fetch on mount
ViewPaths == {"/", "/sales", "/stock", "/analytics"}

\* a logged-in tab on one of the four pages, which its route lets the user
\* see and which just mounted: loading, with the fetch of its useEffect sent.
\* Client c1 is the page of the tab when it is Sales or Stock Entries.
InitViews ==
  /\ users = SeedUsers
  /\ boots = [sent |-> 0, checked |-> 0, resp |-> NoBootResp]
  /\ logins = [s \in Slots |-> Free]
  /\ phase = "ready"
  /\ user \in Sessions
  /\ loading = FALSE
  /\ localStorage = Stringify(user)
  /\ path \in ViewPaths
  /\ Render(path, user).rendered = Routes[path].page
  /\ rendered = Render(path, user).rendered
  /\ menu = Render(path, user).menu
  /\ quick = Render(path, user).quick
  /\ isLoading = FALSE
  /\ error = ""
  /\ loginResult = "none"
  /\ lastOp = "Init"
  /\ sinceLogout = FALSE
  /\ console = ""
  /\ SvcIdle
  /\ FormIdle
  /\ IF rendered \in {"Sales", "StockEntries"}
       THEN /\ initQty \in [Products -> 0..MaxInitQty]
            /\ calls = [c \in Clients |->
                 IF c = "c1" THEN << Call("mount", "", 0, 0, "fetch") >> ELSE << >>]
            /\ cPage = [c \in Clients |-> IF c = "c1" THEN rendered ELSE "None"]
            /\ today = 0
            /\ catalog = << >>
            /\ salesTbl = << >>
       ELSE /\ initQty = [p \in Products |-> 0]
            /\ calls = [c \in Clients |-> << >>]
            /\ cPage = [c \in Clients |-> "None"]
            /\ today = FirstToday
            /\ catalog = PlainCatalog
            /\ salesTbl \in DatedSales(today)
  /\ quantity = initQty
  /\ salesRows = << >>
  /\ stockRows = << >>
  /\ cProducts = [c \in Clients |-> << >>]
  /\ cRows = [c \in Clients |-> << >>]
  /\ cLoading = [c \in Clients |-> TRUE]
  /\ cModal = [c \in Clients |-> FALSE]
  /\ cAlert = [c \in Clients |-> ""]
  /\ monthlyData = << >>
  /\ topProducts = << >>
  /\ aStats = ZeroAnalytics
  /\ aLoading = TRUE
  /\ aReplies = << >>
  /\ dashStats = ZeroStats
  /\ dLoading = TRUE
  /\ dReplies = << >>

\* a request of client c settles: the store answers it or it fails, and the
\* handler that awaited it goes on
Settles(c) ==
  \E i \in 1..MaxPending :
    \/ ServeInsert(c, i)
    \/ FailInsert(c, i)
    \/ ServeFetch(c, i)
    \/ FetchDone(c, i)
    \/ FetchFailed(c, i)

\* the queries of the Analytics page settle
SettlesAnalytics ==
  rendered = "Analytics" /\ \E ok \in AnalyticsAnswers : fetchAnalyticsData(ok)

\* a request of the page in view settles
SettlesView ==
  \/ \E c \in Clients : Settles(c)
  \/ NextDashboard
  \/ SettlesAnalytics

\* the loading flag of the page in view
ViewLoading ==
  CASE rendered = "Dashboard" -> dLoading
    [] rendered = "Analytics" -> aLoading
    [] OTHER                  -> cLoading["c1"]

NextViews ==
  \/ \E c \in Clients : PageOf(c) \in {"Sales", "StockEntries"} /\ OpenModal(c)
  \/ \E c \in Clients : PageOf(c) \in {"Sales", "StockEntries"} /\ CancelModal(c)
  \/ \E c \in Clients, p \in Products, q \in 1..MaxQty : SubmitSale(c, p, q)
  \/ \E c \in Clients, p \in Products, q \in 1..MaxQty : SubmitStock(c, p, q)
  \/ SettlesView

\* the requests of the page eventually settle: while one is in flight, one
\* of them is eventually answered or fails
SpecViews == InitViews /\ [][NextViews]_vars /\ WF_vars(SettlesView)

\* ---- the Record Sale form of the Sales page

MaxPrice == 2   \* the largest price typed into the form
MaxSales == 1   \* sales inserted by a run of the form

\* the value of a number or date input: << >> when empty (valueAsNumber
\* gives NaN), <<v>> otherwise
Empty == << >>

\* useForm({ defaultValues: { date: format(new Date(), 'yyyy-MM-dd') } })
defaultValues ==
  [product_id |-> "", quantity |-> Empty, price |-> Empty,
   date |-> << format(today) >>]

\* handleCloseModal: reset({ product_id: '', quantity: 1, price: 0, date })
resetValues ==
  [product_id |-> "", quantity |-> << 1 >>, price |-> << 0 >>,
   date |-> << format(today) >>]

\* the auto-fill effect, run after a render in which the selected product or
\* `products` changed: setValue('price', selectedProduct.sell_price)
autoFill(f, products) ==
  IF f.product_id # "" /\ f.product_id \in DOMAIN products
    THEN [f EXCEPT !.price = << catalog[f.product_id].sell_price >>]
    ELSE f

\* the register(...) rules handleSubmit applies before it calls onSubmit
valid(f) ==
  /\ f.product_id # ""
  /\ f.quantity # Empty
  /\ f.quantity[1] >= 1
  /\ f.price # Empty
  /\ f.price[1] >= 0
  /\ f.date # Empty

\* saleRowAtListPrice: as saleRow, with the sell price of the product
saleRowAtListPrice(data, u) ==
  [product_id |-> data.product_id, quantity |-> data.quantity[1],
   price |-> catalog[data.product_id].sell_price, date |-> data.date[1],
   recorded_by_user_id |-> u.id]

\* the row onSubmit inserts for the form values `data` and the user u of
\* useAuth()
saleRow(data, u) ==
  [product_id |-> data.product_id, quantity |-> data.quantity[1],
   price |-> data.price[1], date |-> data.date[1], recorded_by_user_id |-> u.id]

\* the user picks an option of the product <select>: the empty one or a
\* product of `products`; the effect that follows fills the price
SelectProduct(p) ==
  /\ cModal["c1"]
  /\ p \in DOMAIN cProducts["c1"] \cup {""}
  /\ form' = autoFill([form EXCEPT !.product_id = p], cProducts["c1"])
  /\ UNCHANGED <<authVars, storeVars, svcVars, reportVars>>

\* the user types into the quantity, price or date input
TypeField(field, v) ==
  /\ cModal["c1"]
  /\ form' = [form EXCEPT ![field] = v]
  /\ UNCHANGED <<authVars, storeVars, svcVars, reportVars>>

\* Cancel button: handleCloseModal()
CancelSale ==
  /\ cModal["c1"]
  /\ cModal' = [cModal EXCEPT !["c1"] = FALSE]
  /\ cAlert' = [cAlert EXCEPT !["c1"] = ""]
  /\ form' = resetValues
  /\ UNCHANGED <<quantity, salesRows, stockRows, cProducts, cRows, cLoading,
                 calls, initQty, cPage>>
  /\ UNCHANGED <<authVars, svcVars, reportVars>>

\* Record Sale button: handleSubmit validates, onSubmit runs the pre-check
\* and sends the insert of the row; the invocation keeps what it was called
\* with
SubmitForm ==
  /\ cModal["c1"]
  /\ valid(form)
  /\ IF preCheck(cProducts["c1"], form.product_id, form.quantity[1])
       THEN /\ CallsInFlight < MaxPending
            /\ Len(salesRows) + InsertsInFlight < MaxSales
            /\ calls' = [calls EXCEPT !["c1"] =
                 Append(@, [kind |-> "sale", stage |-> "insert",
                            row |-> saleRow(form, user), data |-> form,
                            user |-> user, listed |-> cProducts["c1"],
                            products |-> << >>, rows |-> << >>])]
            /\ cAlert' = [cAlert EXCEPT !["c1"] = ""]
       ELSE /\ calls' = calls
            /\ cAlert' = [cAlert EXCEPT !["c1"] =
                 IF form.product_id \notin DOMAIN cProducts["c1"]
                   THEN "Please select a product"
                   ELSE "Insufficient stock"]
  /\ UNCHANGED <<quantity, salesRows, stockRows, cProducts, cRows, cLoading,
                 cModal, initQty, cPage>>
  /\ UNCHANGED <<authVars, svcVars, reportVars, formVars>>

\* the store executes the insert of the row and the trigger of table sales;
\* onSubmit goes on to `await fetchData()`
InsertSale(i) ==
  /\ i \in 1..Len(calls["c1"])
  /\ calls["c1"][i].stage = "insert"
  /\ salesRows' = insert(salesRows, calls["c1"][i].row)
  /\ quantity' = decrease_product_quantity_on_sale(quantity, calls["c1"][i].row)
  /\ calls' = [calls EXCEPT !["c1"][i].stage = "fetch"]
  /\ UNCHANGED <<stockRows, cProducts, cRows, cLoading, cModal, initQty, cPage,
                 cAlert>>
  /\ UNCHANGED <<authVars, svcVars, reportVars, formVars>>

\* fetchData of the mount, or of onSubmit followed by handleCloseModal():
\* the lists are set (or kept, when a query failed), the modal is closed and
\* the form reset
SaleFetched(i, ok) ==
  /\ i \in 1..Len(calls["c1"])
  /\ calls["c1"][i].stage \in (IF ok THEN {"fetched"} ELSE {"fetch", "fetched"})
  /\ cProducts' = IF ok THEN [cProducts EXCEPT !["c1"] = calls["c1"][i].products]
                  ELSE cProducts
  /\ cRows' = IF ok THEN [cRows EXCEPT !["c1"] = calls["c1"][i].rows] ELSE cRows
  /\ cLoading' = [cLoading EXCEPT !["c1"] = FALSE]
  /\ AfterFetchData("c1", i)
  /\ form' = IF calls["c1"][i].kind = "mount" THEN form ELSE resetValues
  /\ UNCHANGED <<quantity, salesRows, stockRows, initQty, cPage>>
  /\ UNCHANGED <<authVars, svcVars, reportVars>>

\* what the user may type
FormInputs ==
  [quantity |-> { << q >> : q \in 0..MaxQty },
   price    |-> { << v >> : v \in 0..MaxPrice },
   date     |-> { Empty, << format(today - 1) >> }]

\* a logged-in tab on /sales, the page just mounted: loading, fetchData sent
InitSaleForm ==
  /\ users = SeedUsers
  /\ boots = [sent |-> 0, checked |-> 0, resp |-> NoBootResp]
  /\ logins = [s \in Slots |-> Free]
  /\ phase = "ready"
  /\ user \in Sessions
  /\ loading = FALSE
  /\ localStorage = Stringify(user)
  /\ path = "/sales"
  /\ rendered = Render(path, user).rendered
  /\ menu = Render(path, user).menu
  /\ quick = Render(path, user).quick
  /\ isLoading = FALSE
  /\ error = ""
  /\ loginResult = "none"
  /\ lastOp = "Init"
  /\ sinceLogout = FALSE
  /\ console = ""
  /\ SvcIdle
  /\ initQty \in [Products -> 0..MaxInitQty]
  /\ quantity = initQty
  /\ salesRows = << >>
  /\ stockRows = << >>
  /\ cProducts = [c \in Clients |-> << >>]
  /\ cRows = [c \in Clients |-> << >>]
  /\ cLoading = [c \in Clients |-> TRUE]
  /\ cModal = [c \in Clients |-> FALSE]
  /\ calls = [c \in Clients |->
               IF c = "c1" THEN << Call("mount", "", 0, 0, "fetch") >> ELSE << >>]
  /\ cPage = [c \in Clients |-> IF c = "c1" THEN "Sales" ELSE "None"]
  /\ cAlert = [c \in Clients |-> ""]
  /\ today = FirstToday
  /\ catalog = PlainCatalog
  /\ salesTbl = << >>
  /\ monthlyData = << >>
  /\ topProducts = << >>
  /\ aStats = ZeroAnalytics
  /\ aLoading = TRUE
  /\ aReplies = << >>
  /\ dashStats = ZeroStats
  /\ dLoading = TRUE
  /\ dReplies = << >>
  /\ form = defaultValues

NextSaleForm ==
  \/ OpenModal("c1")
  \/ \E p \in Products \cup {""} : SelectProduct(p)
  \/ \E field \in DOMAIN FormInputs : \E v \in FormInputs[field] : TypeField(field, v)
  \/ CancelSale
  \/ SubmitForm
  \/ \E i \in 1..MaxPending : InsertSale(i)
  \/ \E i \in 1..MaxPending : FailInsert("c1", i)
  \/ \E i \in 1..MaxPending : ServeFetch("c1", i)
  \/ \E i \in 1..MaxPending, ok \in BOOLEAN : SaleFetched(i, ok)

SpecSaleForm == InitSaleForm /\ [][NextSaleForm]_vars

\* the users table under the requests of several clients: application starts
\* of several browsers and create_user requests, served in any order
InitUsers ==
  /\ AuthInit
  /\ StoreIdle
  /\ SvcIdle
  /\ FormIdle
  /\ ReportsIdle

NextUsers ==
  \/ OtherTabStart
  \/ ServeBootCheck
  \/ ServeBootInsert
  \/ \E n \in NewUsers : SendCreateUser(n.username, n.password, n.role)
  \/ \E s \in ReqSlots : ServeCreateUser(s)
  \/ \E s \in ReqSlots : ReceiveCreateUser(s)

SpecUsers == InitUsers /\ [][NextUsers]_vars

----------------------------------------------------------------------------
\* Claims about the session store and the router (specification Spec)

\* The role -> page permission matrix of the specification
Matrix ==
  [p \in GatedPaths |->
     CASE p = "/"          -> {"super_admin", "admin", "sales_staff"}
       [] p = "/products"  -> {"super_admin", "admin"}
       [] p = "/stock"     -> {"super_admin", "admin"}
       [] p = "/sales"     -> {"super_admin", "admin", "sales_staff"}
       [] p = "/analytics" -> {"super_admin", "admin"}
       [] p = "/users"     -> {"super_admin"}]

MatrixPage ==
  [p \in GatedPaths |->
     CASE p = "/"          -> "Dashboard"
       [] p = "/products"  -> "Products"
       [] p = "/stock"     -> "StockEntries"
       [] p = "/sales"     -> "Sales"
       [] p = "/analytics" -> "Analytics"
       [] p = "/users"     -> "Users"]

Pages == {MatrixPage[p] : p \in GatedPaths}

\* a user of the given role, and what the route of p does with it
SomeUser(role) == [id |-> "u", username |-> "someone", role |-> role]
Permits(p, u) ==
  Routes[p].guarded => ProtectedRoute(u, Routes[p].requiredRoles) = "render"

\* C1: for every authenticated role and every page, the route guard permits
\* rendering iff the permission matrix has a tick: statically for every role
\* and path, and in every state of the tab -- a page is on screen only for a
\* user whose role the matrix ticks for the current path, and a logged-in user
\* at a path whose page the matrix ticks sees that page, otherwise no page
C1_RouteMatrix ==
  /\ \A role \in Roles, p \in GatedPaths :
       Permits(p, SomeUser(role)) <=> role \in Matrix[p]
  /\ rendered \in Pages =>
       /\ path \in GatedPaths
       /\ rendered = MatrixPage[path]
       /\ user.role \in Matrix[path]
  /\ (phase = "ready" /\ user # NullUser) =>
       /\ path \in GatedPaths
       /\ IF user.role \in Matrix[path] THEN rendered = MatrixPage[path]
                                        ELSE rendered = "Denied"

\* a sales_staff session went to /users and was denied
C1_Witness ==
  /\ lastOp = "HistoryNavigate"
  /\ user # NullUser
  /\ user.role = "sales_staff"
  /\ path = "/users"
  /\ rendered = "Denied"

\* C2: with no current user no page is ever on screen; once the tab is ready
\* a visitor with no current user is at /login whatever route was asked for;
\* and / and /sales render for a user of any role
C2_UnauthenticatedRedirect ==
  /\ user = NullUser => rendered \notin Pages
  /\ (phase = "ready" /\ user = NullUser) => (path = "/login" /\ rendered = "Login")
  /\ \A role \in Roles : Permits("/", SomeUser(role)) /\ Permits("/sales", SomeUser(role))
  /\ \A p \in GatedPaths : ~Permits(p, NullUser)
  /\ (phase = "ready" /\ user # NullUser /\ path \in {"/", "/sales"}) =>
       rendered = MatrixPage[path]

\* after a logout, a navigation to a gated route ended on the login page
C2_Witness ==
  /\ lastOp = "HistoryNavigate"
  /\ sinceLogout
  /\ user = NullUser
  /\ path = "/login"
  /\ rendered = "Login"

\* the users row a login of (username, password) is to succeed with
MatchingRows(username, password) ==
  { r \in users : r.username = username /\ Compare(password, r.password) }

\* C3: a login whose username exists with a password matching the stored hash
\* is answered with success and exactly the id, username and role of that row;
\* on that answer login() returns true, the current user is exactly the
\* answer's id, username and role, and the same record is in local storage
C3_LoginSuccess ==
  [][ \A s \in Slots :
        /\ (ServeLogin(s) /\ MatchingRows(logins[s].username, logins[s].password) # {}) =>
             /\ logins'[s].resp.success
             /\ \E r \in MatchingRows(logins[s].username, logins[s].password) :
                  logins'[s].resp.user =
                    [id |-> r.id, username |-> r.username, role |-> r.role]
        /\ (LoginReturn(s) /\ logins[s].resp.success) =>
             /\ loginResult' = "true"
             /\ user' = logins[s].resp.user
             /\ localStorage' = <<user'.id, user'.username, user'.role>>
             /\ Parse(localStorage') = user'
    ]_vars

\* the clerk logged in
C3_Witness ==
  /\ lastOp = "LoginReturn"
  /\ loginResult = "true"
  /\ user = [id |-> "u3", username |-> "clerk", role |-> "sales_staff"]
  /\ localStorage = <<"u3", "clerk", "sales_staff">>

\* C4: a login with an unknown username or a wrong password is answered
\* without success; a login that is answered without success, or whose request
\* throws, returns false and leaves the current user and the local-storage
\* record as they were
C4_LoginFailure ==
  [][ \A s \in Slots :
        /\ (ServeLogin(s) /\ MatchingRows(logins[s].username, logins[s].password) = {}) =>
             ~logins'[s].resp.success
        /\ ((LoginReturn(s) /\ ~logins[s].resp.success) \/ LoginThrows(s)) =>
             /\ loginResult' = "false"
             /\ user' = user
             /\ localStorage' = localStorage
    ]_vars

\* a login failed while a session was set, and the session is still there
C4_Witness ==
  /\ lastOp \in {"LoginReturn", "LoginThrows"}
  /\ loginResult = "false"
  /\ user # NullUser
  /\ localStorage # << >>

\* C5: from a logout until the next successful login the current user is
\* null, the local-storage key is absent and no gated page is on screen
C5_Logout ==
  sinceLogout =>
    /\ user = NullUser
    /\ localStorage = << >>
    /\ rendered \notin Pages
    /\ phase = "ready" => (path = "/login" /\ rendered = "Login")

\* the logout handler has just run
C5_Witness ==
  /\ lastOp = "handleLogout"
  /\ sinceLogout
  /\ user = NullUser
  /\ localStorage = << >>
  /\ rendered = "Login"

\* C6 as amended: the first render happens with current user = null and
\* loading = true; whenever loading is false and a record is in local
\* storage, the current user equals that record
C6_HydratedWhenLoaded ==
  /\ phase = "mounted" => (user = NullUser /\ loading)
  /\ phase = "ready" => ~loading
  /\ (~loading /\ localStorage # << >>) => user = Parse(localStorage)

\* the effect has restored a stored session
C6_Witness ==
  /\ lastOp = "HydrateEffect"
  /\ localStorage # << >>
  /\ user = Parse(localStorage)
  /\ rendered \in Pages

\* C6 as stated: once the first render has happened, a record in local
\* storage is the current user (no render sees user = null with a stored
\* session)
C6_HydratedBeforeFirstRender ==
  (phase # "closed" /\ localStorage # << >>) => user = Parse(localStorage)

\* C10: the sidebar shows exactly the links whose route permits the current
\* user, and the Dashboard shows exactly the quick actions whose route permits
\* the current user; statically, for every role
C10_MenuMatchesGuards ==
  /\ \A role \in Roles :
       /\ filteredNavigation(SomeUser(role)) =
            { p \in GatedPaths : Permits(p, SomeUser(role)) }
       /\ QuickActions(SomeUser(role)) =
            { p \in {"/products", "/sales", "/stock"} : Permits(p, SomeUser(role)) }
  /\ rendered \in Pages =>
       menu = { p \in GatedPaths : Permits(p, user) }
  /\ rendered = "Dashboard" =>
       quick = { p \in {"/products", "/sales", "/stock"} : Permits(p, user) }

\* the Dashboard of a sales_staff session
C10_Witness ==
  /\ rendered = "Dashboard"
  /\ user # NullUser
  /\ user.role = "sales_staff"
  /\ menu = {"/", "/sales"}
  /\ quick = {"/sales"}

----------------------------------------------------------------------------
\* Claims about the stock store and the Sales page (specification SpecStore)

\* every query of f returned data
AllAnswered(f) == \A q \in DOMAIN f : f[q]

\* sum of the quantities of the rows that reference product p
RECURSIVE RowSum(_, _)
RowSum(rows, p) ==
  IF rows = << >> THEN 0
  ELSE (IF rows[1].product_id = p THEN rows[1].quantity ELSE 0)
         + RowSum(Tail(rows), p)

\* the sale submissions whose insert the store has executed and whose
\* invocation has not finished yet
InsertedSales ==
  { x \in Clients \X (1..MaxPending) :
      /\ x[2] <= Len(calls[x[1]])
      /\ calls[x[1]][x[2]].kind = "sale"
      /\ calls[x[1]][x[2]].stage \in {"fetch", "fetched"} }

\* C7: a sale submitted with a quantity above the product's last-fetched
\* quantity, or for a product that is not in the last-fetched list, sends no
\* insert and no fetch, and leaves the store and the page's data unchanged
C7_BlockedSale ==
  [][ \A c \in Clients, p \in Products, q \in 1..MaxQty :
        ( /\ SubmitSale(c, p, q)
          /\ (p \notin DOMAIN cProducts[c] \/ q > cProducts[c][p]) ) =>
            /\ calls' = calls
            /\ quantity' = quantity
            /\ salesRows' = salesRows
            /\ stockRows' = stockRows
            /\ cProducts' = cProducts
            /\ cRows' = cRows
    ]_vars

\* a submission was refused for insufficient stock; nothing was sent
C7_Witness ==
  /\ cAlert["c1"] = "Insufficient stock"
  /\ cModal["c1"]
  /\ calls["c1"] = << >>
  /\ salesRows = << >>

\* C8: every product's quantity is its initial quantity plus the quantities
\* of the stock entries referencing it minus the quantities of the sales
\* referencing it (so that an insert for one product changes no other)
C8_QuantityLedger ==
  \A p \in Products :
    quantity[p] = initQty[p] + RowSum(stockRows, p) - RowSum(salesRows, p)

\* a stock entry and a sale have been inserted, for different products
C8_Witness ==
  /\ Len(stockRows) = 1
  /\ Len(salesRows) = 1
  /\ stockRows[1].product_id # salesRows[1].product_id
  /\ quantity[salesRows[1].product_id] = initQty[salesRows[1].product_id] - salesRows[1].quantity

\* C9: the pre-check is advisory only: every sale insert in flight passed the
\* check against the quantity its page had last fetched, the store can always
\* execute it, and executing it adds the row and subtracts its quantity
\* whatever the quantity on hand is
C9_AdvisoryOnly ==
  [][ \A c \in Clients, i \in 1..MaxPending :
        /\ (i <= Len(calls[c]) /\ calls[c][i].kind = "sale"
              /\ calls[c][i].stage = "insert") =>
             /\ calls[c][i].quantity <= calls[c][i].seen
             /\ ENABLED ServeInsert(c, i)
        /\ (ServeInsert(c, i) /\ calls[c][i].kind = "sale") =>
             /\ salesRows' = Append(salesRows,
                                    [product_id |-> calls[c][i].product_id,
                                     quantity |-> calls[c][i].quantity, by |-> c])
             /\ quantity'[calls[c][i].product_id] =
                  quantity[calls[c][i].product_id] - calls[c][i].quantity
    ]_vars

\* two sale submissions passed the check against the same last-fetched
\* quantity, both were inserted, and the product's quantity is negative
C9_Witness ==
  \E x, y \in InsertedSales :
    LET a == calls[x[1]][x[2]]
        b == calls[y[1]][y[2]]
    IN  /\ x # y
        /\ a.product_id = b.product_id
        /\ a.seen = b.seen
        /\ a.quantity <= a.seen
        /\ b.quantity <= b.seen
        /\ a.quantity + b.quantity > a.seen
        /\ quantity[a.product_id] < 0

----------------------------------------------------------------------------
\* Claims about the default-admin bootstrap (specification Spec)

AdminRows(rows) == { r \in rows : r.username = "admin" }

\* C11: every application start sends exactly one create_default_admin
\* request, with or without a stored session, and nothing else sends one; a
\* request that finds a user 'admin' leaves the users table as it is and is
\* answered with success; one that finds none inserts exactly one row, 'admin'
\* with role super_admin; once 'admin' exists no later request changes the
\* table (a second bootstrap of a table gives the table of the first)
C11_BootstrapIdempotent ==
  [][ /\ (phase = "mounted" /\ phase' # "mounted") =>
           (phase' = "ready" /\ boots'.sent = boots.sent + 1)
      /\ boots'.sent > boots.sent => (phase = "mounted" /\ phase' = "ready")
      /\ (ServeBootCheck /\ AdminRows(users) # {}) =>
           /\ users' = users
           /\ boots'.checked = boots.checked
           /\ boots'.resp.success
      /\ (ServeBootInsert /\ AdminRows(users) = {}) =>
           /\ \E r \in users' :
                /\ users' = users \cup {r}
                /\ r \notin users
                /\ r.username = "admin"
                /\ r.role = "super_admin"
           /\ boots'.resp.success
      /\ AdminRows(users) # {} => users' = users
      /\ bootInsert(bootInsert(users)) = bootInsert(users)
    ]_vars

\* an application start with a stored session has sent its request, the
\* request found 'admin' and was answered with success
C11_Witness ==
  /\ lastOp = "ServeBootCheck"
  /\ phase = "ready"
  /\ localStorage # << >>
  /\ boots.resp = [success |-> TRUE, message |-> "Admin user already exists"]
  /\ Cardinality(AdminRows(users)) = 1

----------------------------------------------------------------------------
\* Claims about the users table under concurrent requests (specification
\* SpecUsers)

UniqueUsernames(rows) ==
  \A r1, r2 \in rows : r1.username = r2.username => r1 = r2

\* C12: whatever the interleaving of create_user and create_default_admin
\* requests, no two rows of users share a username; a create_user or bootstrap
\* insert of a username that is already there is answered with an error and
\* leaves the table unchanged
C12_UsernameUnique ==
  [][ /\ UniqueUsernames(users)
      /\ UniqueUsernames(users')
      /\ \A s \in ReqSlots :
           (ServeCreateUser(s) /\ \E r \in users : r.username = reqs[s].username) =>
             /\ users' = users
             /\ reqs'[s].resp.status = 400
             /\ ~reqs'[s].resp.success
             /\ reqs'[s].resp.error # ""
      /\ (ServeBootInsert /\ AdminRows(users) # {}) =>
           /\ users' = users
           /\ ~boots'.resp.success
    ]_vars

\* two bootstraps both found no 'admin'; the insert of the second one has
\* just been refused, and one 'admin' row is in the table
C12_Witness ==
  /\ lastOp = "ServeBootInsert"
  /\ boots.resp = [success |-> FALSE, message |-> "duplicate key"]
  /\ Cardinality(AdminRows(users)) = 1
  /\ UniqueUsernames(users)

----------------------------------------------------------------------------
\* Claims about the session (specification Spec)

FailureReasons == {"User not found", "Invalid password"}

\* C13: a failed login looks the same to the user whatever its reason: the
\* service answers an unknown username with 'User not found' and a wrong
\* password with 'Invalid password', and for either answer login() returns
\* false, the current user and the local-storage record stay as they were,
\* the screen is the one of the state before, and the Login page that
\* submitted shows the one message 'Invalid username or password'
C13_FailureIndistinguishable ==
  [][ \A s \in Slots :
        /\ (ServeLogin(s) /\ MatchingRows(logins[s].username, logins[s].password) = {}) =>
             /\ ~logins'[s].resp.success
             /\ logins'[s].resp.error =
                  (IF \E r \in users : r.username = logins[s].username
                     THEN "Invalid password" ELSE "User not found")
        /\ (LoginReturn(s) /\ logins[s].resp.error \in FailureReasons) =>
             /\ loginResult' = "false"
             /\ user' = user
             /\ localStorage' = localStorage
             /\ <<path', rendered', menu', quick'>> = <<path, rendered, menu, quick>>
             /\ logins[s].live =>
                  (error' = "Invalid username or password" /\ ~isLoading')
             /\ ~logins[s].live => (rendered = "Login" => error' = error)
    ]_vars

\* a login with a wrong password has just failed on the Login page with the
\* generic message, while the answer to a login with an unknown username is
\* still on its way
C13_Witness ==
  /\ lastOp = "LoginReturn"
  /\ loginResult = "false"
  /\ console = "Login failed: Invalid password"
  /\ error = "Invalid username or password"
  /\ rendered = "Login"
  /\ user = NullUser
  /\ localStorage = << >>
  /\ \E s \in Slots : /\ logins[s].stage = "resp"
                       /\ logins[s].resp.error = "User not found"

\* the passwords typed into the Login form
Passwords == { cr[2] : cr \in Credentials }

\* C14: the local-storage record, when present, is the id, username and role
\* of a row of users (the logged-in user, whenever the tab is ready) and
\* nothing else; every login response has the fields success, user, error,
\* and its user the fields id, username, role: no password, hash or token
C14_SessionRecordFields ==
  /\ localStorage # << >> =>
       /\ Len(localStorage) = 3
       /\ \E r \in users : localStorage = <<r.id, r.username, r.role>>
       /\ \A i \in 1..Len(localStorage) : localStorage[i] \notin Passwords
       /\ phase = "ready" =>
            /\ DOMAIN user = {"id", "username", "role"}
            /\ localStorage = <<user.id, user.username, user.role>>
  /\ \A s \in Slots :
       /\ DOMAIN logins[s].resp = {"success", "user", "error"}
       /\ DOMAIN logins[s].resp.user = {"id", "username", "role"}
       /\ logins[s].resp.success =>
            \E r \in users :
              logins[s].resp.user = [id |-> r.id, username |-> r.username,
                                     role |-> r.role]

\* the manager's session is stored while the answer to another successful
\* login is on its way
C14_Witness ==
  /\ localStorage = <<"u2", "manager", "admin">>
  /\ user = [id |-> "u2", username |-> "manager", role |-> "admin"]
  /\ \E s \in Slots : /\ logins[s].stage = "resp"
                       /\ logins[s].resp.success

----------------------------------------------------------------------------
\* Claims about stale sessions (specification SpecSession)

StoredUser == Parse(localStorage)

\* C15: a stored session is never re-validated and ends only by logout: the
\* hydration of every application start restores the stored id, username and
\* role whatever the users table holds; while the tab is ready the current
\* user is the stored record and the route guard and the menu are those of the
\* stored role; the record leaves local storage only by the logout handler,
\* and changes only by a successful login
C15_SessionNeverRevalidated ==
  [][ /\ (HydrateEffect /\ localStorage # << >>) =>
           /\ user' = StoredUser
           /\ localStorage' = localStorage
      /\ (phase' = "ready" /\ localStorage' # << >>) =>
           /\ user' = Parse(localStorage')
           /\ rendered' \in Pages =>
                /\ ProtectedRoute(Parse(localStorage'), Routes[path'].requiredRoles) = "render"
                /\ menu' = filteredNavigation(Parse(localStorage'))
           /\ rendered' \in {"Denied"} \cup Pages
           /\ rendered' = "Denied" =>
                ProtectedRoute(Parse(localStorage'), Routes[path'].requiredRoles) = "deny"
      /\ (localStorage # << >> /\ localStorage' = << >>) => handleLogout
      /\ (localStorage # << >> /\ localStorage' # localStorage /\ localStorage' # << >>) =>
           (lastOp' = "LoginReturn" /\ loginResult' = "true")
    ]_vars

\* the manager's row was deleted after the login; a later application start
\* at /products has restored the session and shows the page
C15_Witness ==
  /\ lastOp = "HydrateEffect"
  /\ localStorage = <<"u2", "manager", "admin">>
  /\ \A r \in users : r.id # "u2"
  /\ user = [id |-> "u2", username |-> "manager", role |-> "admin"]
  /\ path = "/products"
  /\ rendered = "Products"

----------------------------------------------------------------------------
\* Claims about the Analytics page (specification SpecAnalytics)

\* the calendar month k months before the month ym
MonthShift(ym, k) ==
  LET idx == ym.y * 12 + (ym.m - 1) - k
  IN  [y |-> idx \div 12, m |-> (idx % 12) + 1]

\* the rows of sales dated within the calendar month ym
SalesOfMonth(ym) ==
  SelectSeq(salesTbl, LAMBDA r : r.date.y = ym.y /\ r.date.m = ym.m)

\* the six calendar months ending with the current one, oldest first
SixMonths == [k \in 1..6 |-> MonthShift(monthName(today), 6 - k)]

\* C16: the monthly series has six entries, the six consecutive calendar
\* months ending with the current month in chronological order; each entry
\* aggregates the sales dated within its month; the totals over the series
\* count every sale dated within the six months once
C16_SixCalendarMonths ==
  (~aLoading /\ AllAnswered(aReplies.months)) =>
    /\ Len(monthlyData) = 6
    /\ \A k \in 1..6 :
         /\ monthlyData[k].month = SixMonths[k]
         /\ monthlyData[k].sales = Len(SalesOfMonth(SixMonths[k]))
         /\ monthlyData[k].revenue = Revenue(SalesOfMonth(SixMonths[k]))
    /\ aStats.totalSales =
         SumSeq([k \in 1..6 |-> Len(SalesOfMonth(SixMonths[k]))])

\* the (name, sku) pair of the product of a sale, and the sales of a pair
PairOf(sale) == <<catalog[sale.product_id].name, catalog[sale.product_id].sku>>
SalesOfPair(pair) == SelectSeq(salesTbl, LAMBDA r : PairOf(r) = pair)
SoldPairs == { PairOf(salesTbl[i]) : i \in 1..Len(salesTbl) }

\* C17: the ranking groups by the (name, sku) pair: it has one row per pair
\* that was sold (up to five), and every row totals exactly the sales of the
\* products with its name and its sku
C17_GroupedByNameSku ==
  (~aLoading /\ aReplies.top) =>
    /\ Len(topProducts) =
         (IF Cardinality(SoldPairs) < 5 THEN Cardinality(SoldPairs) ELSE 5)
    /\ \A i \in 1..Len(topProducts) :
         /\ topProducts[i].totalSold =
              Units(SalesOfPair(<<topProducts[i].name, topProducts[i].sku>>))
         /\ topProducts[i].revenue =
              Revenue(SalesOfPair(<<topProducts[i].name, topProducts[i].sku>>))
    /\ \A i, j \in 1..Len(topProducts) :
         (topProducts[i].name = topProducts[j].name
            /\ topProducts[i].sku = topProducts[j].sku) => i = j

\* the sales the page aggregates under one key, and the keys that were sold
SalesOfKey(key) == SelectSeq(salesTbl, LAMBDA r : ProductKey(r) = key)
SoldKeys == { ProductKey(salesTbl[i]) : i \in 1..Len(salesTbl) }
RowKey(row) == row.name \o "-" \o row.sku

\* C18: the top-products list has at most five rows, ordered by
\* non-increasing revenue; a row's revenue is the sum of price x quantity and
\* its units sold the sum of quantity over all sales of its group, the sales
\* of the products with the row's name and sku; no (name, sku) group left out
\* of the list has a revenue strictly greater than a group in the list
C18_TopFiveOfPairs ==
  (~aLoading /\ aReplies.top) =>
    /\ Len(topProducts) <= 5
    /\ \A i \in 1..Len(topProducts) :
         LET group == SalesOfPair(<<topProducts[i].name, topProducts[i].sku>>)
         IN  /\ topProducts[i].revenue = Revenue(group)
             /\ topProducts[i].totalSold = Units(group)
             /\ \A j \in 1..Len(topProducts) :
                  i < j => topProducts[i].revenue >= topProducts[j].revenue
             /\ \A pair \in SoldPairs :
                  (\A j \in 1..Len(topProducts) :
                     <<topProducts[j].name, topProducts[j].sku>> # pair) =>
                    Revenue(SalesOfPair(pair)) <= topProducts[i].revenue

\* C18, of the groups as the page forms them (the sales with equal
\* `${name}-${sku}` key): the top-products list has at most five rows, in order of
\* non-increasing revenue; a row's revenue is the sum of price x quantity and
\* its units sold the sum of quantity over the sales of its group (the sales
\* the page aggregates under the row's key); the rows are of different
\* groups, and no group outside the list has a larger revenue than a row of it
C18_TopFive ==
  (~aLoading /\ aReplies.top) =>
    /\ Len(topProducts) <= 5
    /\ Len(topProducts) = (IF Cardinality(SoldKeys) < 5 THEN Cardinality(SoldKeys) ELSE 5)
    /\ \A i \in 1..Len(topProducts) :
         /\ RowKey(topProducts[i]) \in SoldKeys
         /\ topProducts[i].revenue = Revenue(SalesOfKey(RowKey(topProducts[i])))
         /\ topProducts[i].totalSold = Units(SalesOfKey(RowKey(topProducts[i])))
         /\ \A j \in 1..Len(topProducts) :
              /\ i < j => topProducts[i].revenue >= topProducts[j].revenue
              /\ i # j => RowKey(topProducts[i]) # RowKey(topProducts[j])
         /\ \A key \in SoldKeys :
              (\A j \in 1..Len(topProducts) : RowKey(topProducts[j]) # key) =>
                Revenue(SalesOfKey(key)) <= topProducts[i].revenue

\* six groups were sold, with different revenues; five are listed
C18_Witness ==
  /\ ~aLoading
  /\ Cardinality(SoldKeys) = 6
  /\ Len(topProducts) = 5
  /\ topProducts[1].revenue > topProducts[5].revenue
  /\ \E key \in SoldKeys :
       /\ \A j \in 1..5 : RowKey(topProducts[j]) # key
       /\ Revenue(SalesOfKey(key)) < topProducts[5].revenue

\* the sales dated from day number lo to day number hi, both included
SalesDated(lo, hi) ==
  SelectSeq(salesTbl, LAMBDA r : \E n \in lo..hi : r.date = ToDate(n))
QuantitySum(rows) == SumSeq([i \in 1..Len(rows) |-> rows[i].quantity])

\* C19: today's sales is the sum of quantity over exactly the sales dated
\* today, and week's sales the sum of quantity over exactly the sales of the
\* trailing seven days up to and including today: no sale dated after today
\* and none older than the window is counted. The first day of the window is
\* read either way (six or seven days before today).
C19_TodayAndWeekSales ==
  (~dLoading /\ dReplies["todaysSales"] /\ dReplies["weekSales"]) =>
    /\ dashStats.todaysSales = QuantitySum(SalesDated(today, today))
    /\ \E first \in {today - 7, today - 6} :
         dashStats.weekSales = QuantitySum(SalesDated(first, today))

\* the sales dated in the calendar month of today
SalesThisMonth ==
  SelectSeq(salesTbl, LAMBDA r : /\ r.date.y = ToDate(today).y
                                 /\ r.date.m = ToDate(today).m)

\* C20: monthly revenue is the sum of price x quantity over exactly the sales
\* dated in the current calendar month, monthly cost the sum over the same
\* sales of the product's current buy_price x quantity, and monthly profit is
\* revenue - cost; sales dated outside the month contribute nothing
C20_MonthlyFigures ==
  (~dLoading /\ dReplies["monthlySales"]) =>
    LET rows == SalesThisMonth
        rev  == SumSeq([i \in 1..Len(rows) |-> rows[i].price * rows[i].quantity])
        cst  == SumSeq([i \in 1..Len(rows) |->
                          catalog[rows[i].product_id].buy_price * rows[i].quantity])
    IN  /\ dashStats.monthlyRevenue = rev
        /\ dashStats.monthlyCost = cst
        /\ dashStats.monthlyProfit = rev - cst

\* two in-month sales of 3 x 100 and 2 x 50, on different days: the dashboard
\* shows revenue 400
C20_Witness ==
  /\ ~dLoading
  /\ Len(salesTbl) = 2
  /\ Len(SalesThisMonth) = 2
  /\ salesTbl[1].date # salesTbl[2].date
  /\ {<<salesTbl[i].quantity, salesTbl[i].price>> : i \in 1..2} = {<<3, 100>>, <<2, 50>>}
  /\ dashStats.monthlyRevenue = 400
  /\ dashStats.monthlyProfit = 400 - dashStats.monthlyCost
  /\ dashStats.monthlyCost > 0

\* C21: the Dashboard's stock value is the sum of buy_price x quantity over
\* exactly the products fetched, every product once, and it is 0 when no
\* product is fetched or the products query fails
C21_StockValue ==
  ~dLoading =>
    /\ dReplies["products"] =>
         dashStats.totalStockValue =
           SumFn([p \in DOMAIN catalog |->
                    catalog[p].buy_price * catalog[p].quantity], DOMAIN catalog)
    /\ (DOMAIN catalog = {} \/ ~dReplies["products"]) =>
         dashStats.totalStockValue = 0

\* two products were fetched, with different quantities on hand
C21_Witness ==
  /\ ~dLoading
  /\ dReplies["products"]
  /\ DOMAIN catalog = {"p1", "p3"}
  /\ catalog["p1"].quantity = 2
  /\ catalog["p3"].quantity = 1
  /\ dashStats.totalStockValue =
       2 * catalog["p1"].buy_price + catalog["p3"].buy_price

\* C22: the Dashboard of a sales_staff session shows only today's sales, the
\* week's sales and the product count, with the figures of the page state;
\* stock value, monthly revenue, cost and profit and the user count are not
\* shown; the Dashboard queries the users table only for a super_admin
C22_SalesStaffDashboard ==
  /\ "users" \in DOMAIN dReplies => user.role = "super_admin"
  /\ (rendered = "Dashboard" /\ user.role = "sales_staff") =>
       LET cards == DashboardCards(user, dashStats, dLoading)
       IN  /\ DOMAIN cards \cap {"Stock Value", "Monthly Revenue", "Monthly Cost",
                                  "Monthly Profit", "Total Users", "Total Products"} = {}
           /\ ~dLoading =>
                cards = [t \in {"Today's Sales", "This Week's Sales",
                                "Available Products"} |->
                           IF t = "Today's Sales" THEN dashStats.todaysSales
                           ELSE IF t = "This Week's Sales" THEN dashStats.weekSales
                           ELSE dashStats.totalProducts]

\* a sales_staff Dashboard has loaded; sales of the month exist and the page
\* state holds their revenue and the stock value, which no card shows
C22_Witness ==
  /\ rendered = "Dashboard"
  /\ user.role = "sales_staff"
  /\ ~dLoading
  /\ "users" \notin DOMAIN dReplies
  /\ dashStats.monthlyRevenue > 0
  /\ dashStats.totalStockValue > 0
  /\ dashStats.todaysSales > 0
  /\ DashboardCards(user, dashStats, dLoading)["Today's Sales"] = dashStats.todaysSales

\* rows is the table `before` with the rows `added` appended, no row of
\* `before` changed or removed
Extends(rows, before, added) ==
  /\ Len(rows) = Len(before) + added
  /\ SubSeq(rows, 1, Len(before)) = before

Fetching(cs, c, kinds) ==
  \E i \in 1..Len(cs[c]) :
    cs[c][i].kind \in kinds /\ cs[c][i].stage \in {"fetch", "fetched"}

\* C24 as stated: a page is in the loading state exactly while a fetch is in
\* flight, the first one and the re-fetch of every create action
C24_LoadingWhileFetching ==
  \A c \in Clients : cLoading[c] <=> Fetching(calls, c, {"mount", "sale", "stock"})

\* C24, amended: a page is in the loading state exactly while its first
\* fetch is in flight and never again; the re-fetch of a create action runs
\* in the loaded state; the first fetch ends in loaded with the fetched data
\* or, when it fails, with the data the page had
C24_LoadingOnce ==
  [][ \A c \in Clients :
        /\ cLoading[c] <=> Fetching(calls, c, {"mount"})
        /\ cLoading'[c] <=> Fetching(calls', c, {"mount"})
        /\ ~cLoading[c] => ~cLoading'[c]
        /\ (cLoading[c] /\ ~cLoading'[c]) =>
             \E i \in 1..Len(calls[c]) :
               /\ calls[c][i].kind = "mount"
               /\ calls'[c] = Remove(calls[c], i)
               /\ \/ /\ cProducts'[c] = calls[c][i].products
                     /\ cRows'[c] = calls[c][i].rows
                     /\ calls[c][i].stage = "fetched"
                  \/ /\ cProducts'[c] = cProducts[c]
                     /\ cRows'[c] = cRows[c]
    ]_vars

\* the re-fetch after an insert is in flight and the page is not loading
C24_Witness ==
  \E c \in Clients :
    /\ ~cLoading[c]
    /\ cModal[c]
    /\ Fetching(calls, c, {"sale", "stock"})
    /\ cRows[c] # RowsQuery(PageOf(c))

\* C25: the profit margin of Analytics is total profit / total revenue x 100,
\* the totals summed over the six monthly entries and total profit = total
\* revenue - total cost; it is 0 whenever total revenue is 0, and nothing is
\* ever divided by zero (the margin is kept as the fraction num / den)
C25_ProfitMargin ==
  ~aLoading =>
    LET tr == SumSeq([k \in 1..Len(monthlyData) |-> monthlyData[k].revenue])
        tc == SumSeq([k \in 1..Len(monthlyData) |-> monthlyData[k].cost])
        m  == aStats.profitMargin
    IN  /\ Len(monthlyData) = 6
        /\ aStats.totalRevenue = tr
        /\ aStats.totalProfit = tr - tc
        /\ m.den # 0
        /\ IF tr = 0 THEN m.num = 0
           ELSE m.num * tr = (tr - tc) * 100 * m.den

\* sales at price 0 only: no revenue, a loss, and the margin shown is 0
C25_Witness ==
  /\ ~aLoading
  /\ aStats.totalSales > 0
  /\ aStats.totalRevenue = 0
  /\ aStats.totalProfit < 0
  /\ aStats.profitMargin.num = 0

\* C26: in one tab, once the start-up hydration has run, the current user is
\* non-null iff the local-storage key is present, and when it is present both
\* hold the same id, username and role, after any sequence of successful
\* logins, failed logins and logouts
C26_UserIffStored ==
  phase = "ready" =>
    /\ user # NullUser <=> localStorage # << >>
    /\ localStorage # << >> =>
         /\ Parse(localStorage).id = user.id
         /\ Parse(localStorage).username = user.username
         /\ Parse(localStorage).role = user.role

\* hydration has run, a user of role admin is logged in and a later login
\* has failed: the current user and the stored record are the same
C26_Witness ==
  /\ phase = "ready"
  /\ lastOp \in {"LoginReturn", "LoginThrows"}
  /\ loginResult = "false"
  /\ ~sinceLogout
  /\ user.role = "admin"
  /\ Parse(localStorage) = user

\* the store cannot go negative: no quantity is negative, and every sale
\* insert sent is for at most the quantity the store has of its product
NoOversale ==
  /\ \A p \in Products : quantity[p] >= 0
  /\ \A c \in Clients : \A i \in 1..Len(calls[c]) :
       (calls[c][i].kind = "sale" /\ calls[c][i].stage = "insert") =>
         calls[c][i].quantity <= quantity[calls[c][i].product_id]

\* C27 as stated: with a single client and no other writer, quantities
\* starting >= 0, stock entries of quantity >= 1 and every submission
\* completed before the next starts, no product's quantity is ever negative
\* and every accepted sale is for at most the store's quantity of its product
\* at the time of the insert
C27_NeverNegative == NoOversale

\* C27, amended: the same, provided the client does not leave its page while
\* a submission of the page is in flight
C27_NeverNegativeUnlessLeft ==
  (\A c \in Clients : cPage[c] # "LeftBusy") => NoOversale

\* the client added stock on the Stock Entries page, went to the Sales page
\* with nothing in flight, and sold all there is of the product
C27_Witness ==
  /\ cPage = [c \in Clients |-> IF c = "c1" THEN "Left" ELSE "Sales"]
  /\ Len(stockRows) = 1
  /\ Len(salesRows) = 1
  /\ salesRows[1].by = "c2"
  /\ salesRows[1].product_id = stockRows[1].product_id
  /\ initQty[salesRows[1].product_id] = 0
  /\ quantity[salesRows[1].product_id] = 0
  /\ CallsInFlight = 0

\* the inserts sent and not failed: rows written and inserts in flight
InsertsSent == Len(salesRows) + Len(stockRows) + InsertsInFlight

\* the re-fetches of client c in flight
Refetches(cs, c) ==
  { j \in 1..Len(cs[c]) :
      cs[c][j].kind # "mount" /\ cs[c][j].stage \in {"fetch", "fetched"} }

\* C28: in the submit handlers of Sales and Stock Entries, an insert that
\* returns an error is followed by no re-fetch and leaves the modal and the
\* displayed products and rows as they are; an insert that succeeds is
\* followed by the re-fetch, and the handler closes the modal (resetting the
\* form) only in the step in which that re-fetch has settled; a submit sends
\* at most one insert and no insert is sent again
C28_SubmitHandlers ==
  [][ \A c \in Clients :
        /\ \A i \in 1..MaxPending :
             /\ FailInsert(c, i) =>
                  /\ Cardinality(Refetches(calls', c)) = Cardinality(Refetches(calls, c))
                  /\ Len(calls'[c]) = Len(calls[c]) - 1
                  /\ InsertsSent' = InsertsSent - 1
                  /\ cModal' = cModal
                  /\ cProducts' = cProducts
                  /\ cRows' = cRows
             /\ ServeInsert(c, i) =>
                  /\ Refetches(calls', c) = Refetches(calls, c) \cup {i}
                  /\ InsertsSent' = InsertsSent
                  /\ cModal' = cModal
                  /\ cProducts' = cProducts
                  /\ cRows' = cRows
             /\ ((FetchDone(c, i) \/ FetchFailed(c, i)) /\ i \in Refetches(calls, c)) =>
                  /\ ~cModal'[c]
                  /\ InsertsSent' = InsertsSent
        /\ (cModal[c] /\ ~cModal'[c]) =>
             \/ CancelModal(c)
             \/ \E j \in Refetches(calls, c) : calls'[c] = Remove(calls[c], j)
        /\ InsertsSent' <= InsertsSent + 1
        /\ InsertsSent' = InsertsSent + 1 =>
             \E d \in Clients, p \in Products, q \in 1..MaxQty :
               SubmitSale(d, p, q) \/ SubmitStock(d, p, q)
    ]_vars

\* a page has completed two submissions: both rows are in its list, nothing
\* is in flight and the modal is closed
C28_Witness ==
  \E c \in Clients :
    /\ ~cModal[c]
    /\ calls[c] = << >>
    /\ Len(cRows[c]) = 2
    /\ cRows[c] = RowsQuery(PageOf(c))
    /\ \A k \in 1..2 : cRows[c][k].by = c

\* the figures of the Dashboard computed from the rows of query q
FiguresOf(q) ==
  CASE q = "products"     -> {"totalProducts", "totalStockValue"}
    [] q = "monthlySales" -> {"monthlyRevenue", "monthlyCost", "monthlyProfit"}
    [] q = "users"        -> {"totalUsers"}
    [] q = "todaysSales"  -> {"todaysSales"}
    [] OTHER              -> {"weekSales"}

C30_SaleRowOfForm ==
  [][ /\ \A i \in 1..MaxPending :
           InsertSale(i) =>
             LET call == calls["c1"][i]
                 row  == salesRows'[Len(salesRows')]
             IN  /\ Len(salesRows') = Len(salesRows) + 1
                 /\ row.recorded_by_user_id = call.user.id
                 /\ row.product_id = call.data.product_id
                 /\ row.product_id \in DOMAIN call.listed
                 /\ call.listed[row.product_id] > 0
                 /\ row.quantity = call.data.quantity[1]
                 /\ row.price = call.data.price[1]
                 /\ row.date = call.data.date[1]
      /\ (SubmitForm /\ calls' # calls) =>
           LET call == calls'["c1"][Len(calls'["c1"])]
           IN  /\ call.data = form
               /\ call.user = user
               /\ user # NullUser
               /\ call.listed = cProducts["c1"]
      /\ \A k \in 1..Len(salesRows') :
           /\ salesRows'[k].recorded_by_user_id = user'.id
           /\ salesRows'[k].quantity >= 1
    ]_vars

\* a sale recorded by the clerk at a price other than the product's sell
\* price and with a date other than today
C30_Witness ==
  \E k \in 1..Len(salesRows) :
    /\ rendered = "Sales"
    /\ form # << >>
    /\ salesRows[k].price # catalog[salesRows[k].product_id].sell_price
    /\ salesRows[k].date = format(today - 1)
    /\ salesRows[k].recorded_by_user_id = user.id
    /\ user.role = "sales_staff"

====
